---- MODULE Spec2Model ----
(***************************************************************************)
(* Pjuu post backend (pjuu/posts/backend.py) over its Redis store.         *)
(*                                                                         *)
(* The store is the state; every request-handling worker is a process      *)
(* that runs one backend function at a time.  One step of a process is     *)
(* one store round-trip (a single Redis command, one MULTI/EXEC pipeline   *)
(* or one Lua script), together with the Python that follows it up to the  *)
(* next round-trip.  Workers interleave between round-trips.               *)
(***************************************************************************)
EXTENDS Integers, Sequences, FiniteSets, TLC

\* ---------------------------------------------------------------- bounds
NUsers == 3
NProcs == 2
MaxPid == 3
MaxCid == 2
MaxCallsSub == 3
MaxCallsVote == 2
MaxCallsDel == 2
MaxCallsCom == 1
MaxTags == 2
MaxCallsPost == 2
MaxCallsIds == 2
MaxCallsRead == 1
MaxCallsGone == 2
MaxCallsReason == 2
MaxCallsUnsub == 3
MaxCallsTags == 2
MaxTagsParsed == 3
MaxCallsAlert == 3
MaxCallsLedger == 2
MaxCallsIndex == 2
MaxCallsTagging == 2
MaxCallsRender == 4
MaxCallsView == 3
\* The feed cap, 1000 in the code (backend.py 170 and 198).
FeedCap == 2

\* ------------------------------------------------------ program constants
POSTER == 1
COMMENTER == 2
TAGEE == 3
\* Python's None, as redis-py returns it for a missing hash field or a
\* missing sorted-set member.  Uids, pids, cids and reasons start at 1 and
\* vote amounts are +1 / -1, so 0 is free to stand for it.
None == 0

Users == 1..NUsers
Procs == 1..NProcs
Pids == 1..MaxPid
Cids == 1..MaxCid
Reasons == {POSTER, COMMENTER, TAGEE}
\* The names a body can tag: name u is the username of user u, and the name
\* after the last user is the username of nobody.
Names == 1..(NUsers + 1)
\* A body, as far as the backend reads it: the names of its '@' tags, in
\* the order tag_re finds them.
Bodies == UNION {[1..n -> Names] : n \in 0..MaxTags}

VARIABLES
    global_pid,        \* K.GLOBAL_PID counter
    global_cid,        \* K.GLOBAL_CID counter
    post,              \* K.POST % pid          hash
    comment,           \* K.COMMENT % cid       hash
    post_votes,        \* K.POST_VOTES % pid    zset  uid -> amount
    comment_votes,     \* K.COMMENT_VOTES % cid zset  uid -> amount
    post_subscribers,  \* K.POST_SUBSCRIBERS % pid zset uid -> reason
    post_comments,     \* K.POST_COMMENTS % pid list of cids
    user_posts,        \* K.USER_POSTS % uid    list of pids
    user_comments,     \* K.USER_COMMENTS % uid list of cids
    user_feed,         \* K.USER_FEED % uid     list of pids
    user_score,        \* K.USER % uid, field 'score'
    user_followers,    \* K.USER_FOLLOWERS % uid zset of uids
    user,              \* K.USER % uid exists, with username and email
    pc,                \* where each worker is in the function it runs
    loc,               \* the arguments and local variables of that function
    hist               \* the calls that returned, in order of return

store == <<global_pid, global_cid, post, comment, post_votes, comment_votes,
           post_subscribers, post_comments, user_posts, user_comments,
           user_feed, user_score, user_followers, user>>
vars == <<global_pid, global_cid, post, comment, post_votes, comment_votes,
          post_subscribers, post_comments, user_posts, user_comments,
          user_feed, user_score, user_followers, user, pc, loc,
          hist>>

\* The store as one value: what a call found and what it left.
Store ==
    [global_pid |-> global_pid, global_cid |-> global_cid, post |-> post,
     comment |-> comment, post_votes |-> post_votes,
     comment_votes |-> comment_votes, post_subscribers |-> post_subscribers,
     post_comments |-> post_comments, user_posts |-> user_posts,
     user_comments |-> user_comments, user_feed |-> user_feed,
     user_score |-> user_score, user_followers |-> user_followers,
     user |-> user]

\* ------------------------------------------------------- Redis primitives
\* A hash that does not exist: no field is set.
NoPost == [ex |-> FALSE, uid |-> None, score |-> 0]
NoComment == [ex |-> FALSE, uid |-> None, pid |-> None, score |-> 0]
\* A sorted set that does not exist: no member has a score.
EmptyZ == [u \in Users |-> None]

ZScore(z, m) == z[m]
ZAdd(z, s, m) == [z EXCEPT ![m] = s]
\* A removal that deletes the whole key.
ZRemKey(z, m) == [u \in DOMAIN z |-> None]
ZRem(z, m) == [z EXCEPT ![m] = None]
ZMembers(z) == {m \in DOMAIN z : z[m] # None}
\* ZRANGE key 0 -1: members by ascending score, ties by member.
ZBefore(z, m, n) == z[m] < z[n] \/ (z[m] = z[n] /\ m <= n)
RECURSIVE ZSorted(_, _)
ZSorted(z, M) ==
    IF M = {} THEN <<>>
    ELSE LET m == CHOOSE x \in M : \A y \in M : ZBefore(z, x, y)
         IN  <<m>> \o ZSorted(z, M \ {m})
ZRange(z) == ZSorted(z, ZMembers(z))

LPush(l, x) == <<x>> \o l
LRem(l, x) == SelectSeq(l, LAMBDA e : e # x)
\* A trim that cuts nothing.
NoTrim(l, n) == l
\* LTRIM key 0 n-1: the first n elements.
LTrim(l, n) == SubSeq(l, 1, IF Len(l) < n THEN Len(l) ELSE n)
Range(s) == {s[i] : i \in DOMAIN s}

\* pjuu.lib.lua zadd_member_nx: add the member with the score only if the
\* member is not in the set; the result is whether it was added.
zadd_member_nx(z, s, m) ==
    IF z[m] = None THEN [z |-> ZAdd(z, s, m), added |-> TRUE]
    ELSE [z |-> z, added |-> FALSE]

\* The store before anything was written to it, as a value: the accounts
\* exist, with reputation 0.
NoStore ==
    [global_pid |-> 0, global_cid |-> 0, post |-> [i \in Pids |-> NoPost],
     comment |-> [c \in Cids |-> NoComment],
     post_votes |-> [i \in Pids |-> EmptyZ],
     comment_votes |-> [c \in Cids |-> EmptyZ],
     post_subscribers |-> [i \in Pids |-> EmptyZ],
     post_comments |-> [i \in Pids |-> <<>>],
     user_posts |-> [u \in Users |-> <<>>],
     user_comments |-> [u \in Users |-> <<>>],
     user_feed |-> [u \in Users |-> <<>>],
     user_score |-> [u \in Users |-> 0],
     user_followers |-> [u \in Users |-> EmptyZ],
     user |-> [u \in Users |-> TRUE]]

\* The step leaves the store with the value s.
StoreBecomes(s) ==
    /\ global_pid' = s.global_pid
    /\ global_cid' = s.global_cid
    /\ post' = s.post
    /\ comment' = s.comment
    /\ post_votes' = s.post_votes
    /\ comment_votes' = s.comment_votes
    /\ post_subscribers' = s.post_subscribers
    /\ post_comments' = s.post_comments
    /\ user_posts' = s.user_posts
    /\ user_comments' = s.user_comments
    /\ user_feed' = s.user_feed
    /\ user_score' = s.user_score
    /\ user_followers' = s.user_followers
    /\ user' = s.user

\* ------------------------------------------------------------ the workers
NoLoc ==
    [op |-> "none", uid |-> None, pid |-> None, cid |-> None, arg |-> 0,
     body |-> <<>>, author |-> None, amount |-> 0, cids |-> <<>>,
     followers |-> <<>>, newid |-> None, tagees |-> <<>>, tagees_to_alert |-> <<>>,
     alerts |-> <<>>, user_score |-> 0, t0 |-> 0, solo |-> TRUE,
     pre |-> NoStore]

\* The calls entered so far: those that returned and those still running.
Entered == Len(hist) + Cardinality({q \in Procs : pc[q] # "idle"})

Idle(p) == pc[p] = "idle"
\* A request goes to the first worker that is free.
Free(p) == Idle(p) /\ \A q \in Procs : q < p => ~Idle(q)
Alone(p) == \A q \in Procs \ {p} : Idle(q)

\* Worker p enters a function: its arguments, the store as it finds it, and
\* whether another worker is inside a function at that moment.  A worker
\* already inside a function is no longer alone from here on.
Enter(p, l, label) ==
    /\ pc' = [pc EXCEPT ![p] = label]
    /\ loc' = [q \in Procs |->
                 IF q = p
                 THEN [l EXCEPT !.t0 = Len(hist), !.solo = Alone(p),
                                !.pre = Store]
                 ELSE IF Idle(q) THEN loc[q]
                 ELSE [loc[q] EXCEPT !.solo = FALSE]]
    /\ hist' = hist

\* What the returned call is remembered by.  ret is "True", "False", "id"
\* (a create_* call, the new id in newid) or "TypeError" (the call raised);
\* alerts are the alerts it handed to AlertManager().alert, in order, each
\* with its recipient list.
Call(l, ret, newid, after) ==
    [op |-> l.op, uid |-> l.uid, pid |-> l.pid, cid |-> l.cid, arg |-> l.arg,
     body |-> l.body, ret |-> ret, newid |-> newid, alerts |-> l.alerts,
     t0 |-> l.t0, solo |-> l.solo, pre |-> l.pre, post |-> after]

\* Worker p returns from the function it is in; the store after its last
\* command is `after`.
Return(p, l, ret, newid, after) ==
    /\ pc' = [pc EXCEPT ![p] = "idle"]
    /\ loc' = [q \in Procs |-> IF q = p THEN NoLoc ELSE loc[q]]
    /\ hist' = Append(hist, Call(l, ret, newid, after))

\* Worker p enters and returns in the same step.
EnterReturn(p, l, ret, after) ==
    /\ pc' = pc
    /\ loc' = [q \in Procs |->
                 IF Idle(q) THEN loc[q] ELSE [loc[q] EXCEPT !.solo = FALSE]]
    /\ hist' = Append(hist,
                      Call([l EXCEPT !.t0 = Len(hist), !.solo = Alone(p),
                                     !.pre = Store], ret, None, after))

Goto(p, label) ==
    /\ pc' = [pc EXCEPT ![p] = label]
    /\ UNCHANGED <<loc, hist>>

\* ------------------------------------------------------------- subscribe
\* A subscribe that does not look whether the post exists.
subscribe_unchecked(p, uid, pid, reason) ==
    /\ Free(p)
    /\ Enter(p, [NoLoc EXCEPT !.op = "subscribe", !.uid = uid, !.pid = pid,
                              !.arg = reason], "subscribe_add")
    /\ UNCHANGED store

\* backend.py 559-561: the post must exist, else False and nothing is done.
subscribe_exists(p, uid, pid, reason) ==
    /\ Free(p)
    /\ LET l == [NoLoc EXCEPT !.op = "subscribe", !.uid = uid, !.pid = pid,
                              !.arg = reason]
       IN  IF post[pid].ex
           THEN Enter(p, l, "subscribe_add")
           ELSE EnterReturn(p, l, "False", Store)
    /\ UNCHANGED store

\* A subscribe that overwrites the stored reason: a plain ZADD.
SubscribeAddOverwrite(z, reason, uid) ==
    [z |-> ZAdd(z, reason, uid), added |-> z[uid] = None]

\* backend.py 565-566: the Lua call of subscribe.
SubscribeAdd(z, reason, uid) == zadd_member_nx(z, reason, uid)

subscribe_add(p) ==
    /\ pc[p] = "subscribe_add"
    /\ LET l == loc[p]
           r == SubscribeAdd(post_subscribers[l.pid], l.arg, l.uid)
       IN  /\ post_subscribers' = [post_subscribers EXCEPT ![l.pid] = r.z]
           /\ Return(p, l, IF r.added THEN "True" ELSE "False", None,
                     [Store EXCEPT !.post_subscribers = post_subscribers'])
    /\ UNCHANGED <<global_pid, global_cid, post, comment, post_votes,
                   comment_votes, post_comments, user_posts, user_comments,
                   user_feed, user_score, user_followers, user>>

\* ----------------------------------------------------------- unsubscribe
\* backend.py 569-579: ZREM, True when a member was removed.
unsubscribe(p, uid, pid) ==
    /\ Free(p)
    /\ LET l == [NoLoc EXCEPT !.op = "unsubscribe", !.uid = uid, !.pid = pid]
           z == ZRem(post_subscribers[pid], uid)
       IN  /\ post_subscribers' = [post_subscribers EXCEPT ![pid] = z]
           /\ EnterReturn(p, l,
                  IF post_subscribers[pid][uid] # None THEN "True" ELSE "False",
                  [Store EXCEPT !.post_subscribers = post_subscribers'])
    /\ UNCHANGED <<global_pid, global_cid, post, comment, post_votes,
                   comment_votes, post_comments, user_posts, user_comments,
                   user_feed, user_score, user_followers, user>>

\* ------------------------------------------------------------------ vote
\* has_voted looking at the post's votes whatever the target is.
HasVotedOnPostOnly(uid, pid, cid) == ZScore(post_votes[pid], uid)

\* backend.py 407-420: the stored vote of uid on the comment, if a cid is
\* given, else on the post; None if there is none.
has_voted(uid, pid, cid) ==
    IF cid # None THEN ZScore(comment_votes[cid], uid)
    ELSE ZScore(post_votes[pid], uid)

\* backend.py 430: `if not has_voted(...)`, None (and 0) being falsy.
vote_has_voted(p, uid, pid, cid, amount) ==
    /\ Free(p)
    /\ LET l == [NoLoc EXCEPT !.op = "vote", !.uid = uid, !.pid = pid,
                              !.cid = cid, !.arg = amount, !.amount = amount]
       IN  IF has_voted(uid, pid, cid) = None
           THEN Enter(p, l, "vote_author")
           ELSE EnterReturn(p, l, "False", Store)
    /\ UNCHANGED store

\* A vote that lets the author through.
AnyoneMayVote(author_uid, uid) == TRUE

\* backend.py 435, 455: `if author_uid != uid`.
MayVote(author_uid, uid) == author_uid # uid

\* backend.py 434, 454: int(r.hget(..., 'uid')) raises TypeError on None.
vote_author(p) ==
    /\ pc[p] = "vote_author"
    /\ LET l == loc[p]
           author_uid == IF l.cid # None THEN comment[l.cid].uid
                         ELSE post[l.pid].uid
       IN  IF author_uid = None THEN Return(p, l, "TypeError", None, Store)
           ELSE IF MayVote(author_uid, l.uid)
           THEN /\ pc' = [pc EXCEPT ![p] = "vote_zadd"]
                /\ loc' = [loc EXCEPT ![p].author = author_uid]
                /\ hist' = hist
           ELSE Return(p, l, "False", None, Store)
    /\ UNCHANGED store

\* backend.py 436, 456: r.zadd(votes, amount, uid).
vote_zadd(p) ==
    /\ pc[p] = "vote_zadd"
    /\ LET l == loc[p]
       IN  IF l.cid # None
           THEN /\ comment_votes' = [comment_votes EXCEPT
                       ![l.cid] = ZAdd(@, l.arg, l.uid)]
                /\ post_votes' = post_votes
           ELSE /\ post_votes' = [post_votes EXCEPT
                       ![l.pid] = ZAdd(@, l.arg, l.uid)]
                /\ comment_votes' = comment_votes
    /\ Goto(p, "vote_hincrby")
    /\ UNCHANGED <<global_pid, global_cid, post, comment, post_subscribers,
                   post_comments, user_posts, user_comments, user_feed,
                   user_score, user_followers, user>>

\* backend.py 438, 458: r.hincrby(target, 'score', amount); HINCRBY makes
\* the hash and the field if they are missing.
vote_hincrby(p) ==
    /\ pc[p] = "vote_hincrby"
    /\ LET l == loc[p]
       IN  IF l.cid # None
           THEN /\ comment' = [comment EXCEPT ![l.cid].ex = TRUE,
                                              ![l.cid].score = @ + l.arg]
                /\ post' = post
           ELSE /\ post' = [post EXCEPT ![l.pid].ex = TRUE,
                                        ![l.pid].score = @ + l.arg]
                /\ comment' = comment
    /\ Goto(p, "vote_user_score")
    /\ UNCHANGED <<global_pid, global_cid, post_votes, comment_votes,
                   post_subscribers, post_comments, user_posts, user_comments,
                   user_feed, user_score, user_followers, user>>

\* A clamp that is never applied.
NoClamp(current_user_score, amount) == amount

\* backend.py 444-445, 464-465: a downvote of an author at or below zero
\* is applied to the author as 0.
Clamp(current_user_score, amount) ==
    IF current_user_score <= 0 /\ amount < 0 THEN 0 ELSE amount

\* backend.py 441-448, 461-468: read the author's score, clamp the amount.
vote_user_score(p) ==
    /\ pc[p] = "vote_user_score"
    /\ pc' = [pc EXCEPT ![p] = "vote_user_hincrby"]
    /\ loc' = [loc EXCEPT ![p].amount =
                   Clamp(user_score[loc[p].author], loc[p].arg)]
    /\ hist' = hist
    /\ UNCHANGED store

\* backend.py 451-452, 471-472: add the clamped amount to the author's
\* score; return True.
vote_user_hincrby(p) ==
    /\ pc[p] = "vote_user_hincrby"
    /\ LET l == loc[p]
       IN  /\ user_score' = [user_score EXCEPT ![l.author] = @ + l.amount]
           /\ Return(p, l, "True", None,
                     [Store EXCEPT !.user_score = user_score'])
    /\ UNCHANGED <<global_pid, global_cid, post, comment, post_votes,
                   comment_votes, post_subscribers, post_comments, user_posts,
                   user_comments, user_feed, user_followers, user>>

\* ---------------------------------------------------------------- delete
\* A store command of worker p that leaves the store as s and goes on.
Command(p, s, label) == StoreBecomes(s) /\ Goto(p, label)

\* backend.py 518-523: `if cid:`, then the comment's author;
\* int(r.hget(K.COMMENT % cid, 'uid')) raises TypeError on None.
delete_comment(p, uid, pid, cid) ==
    /\ Free(p)
    /\ cid # None
    /\ LET l == [NoLoc EXCEPT !.op = "delete", !.uid = uid, !.pid = pid,
                              !.cid = cid, !.author = comment[cid].uid]
       IN  IF comment[cid].uid = None
           THEN EnterReturn(p, l, "TypeError", Store)
           ELSE Enter(p, l, "delete_comment_hash")
    /\ UNCHANGED store

\* backend.py 525: r.delete(K.COMMENT % cid).
delete_comment_hash(p) ==
    /\ pc[p] = "delete_comment_hash"
    /\ Command(p, [Store EXCEPT !.comment[loc[p].cid] = NoComment],
               "delete_comment_votes")

\* A comment delete that drops the votes of the post, not of the comment.
delete_comment_votes_of_post(p) ==
    /\ pc[p] = "delete_comment_votes"
    /\ Command(p, [Store EXCEPT !.post_votes[loc[p].pid] = EmptyZ],
               "delete_comment_lrem_post")

\* backend.py 526: r.delete(K.COMMENT_VOTES % cid).
delete_comment_votes(p) ==
    /\ pc[p] = "delete_comment_votes"
    /\ Command(p, [Store EXCEPT !.comment_votes[loc[p].cid] = EmptyZ],
               "delete_comment_lrem_post")

\* backend.py 527: r.lrem(K.POST_COMMENTS % pid, 0, cid).
delete_comment_lrem_post(p) ==
    /\ pc[p] = "delete_comment_lrem_post"
    /\ Command(p, [Store EXCEPT !.post_comments[loc[p].pid] =
                                   LRem(@, loc[p].cid)],
               "delete_comment_lrem_user")

\* A comment delete that leaves the author's comment list alone.
KeepUserComments(l, cid) == l

\* backend.py 501, 529: r.lrem(K.USER_COMMENTS % author_id, 0, cid).
LRemUserComments(l, cid) == LRem(l, cid)

\* backend.py 529-530: the author's comment list; return True.
delete_comment_lrem_user(p) ==
    /\ pc[p] = "delete_comment_lrem_user"
    /\ LET l == loc[p]
           s == [Store EXCEPT !.user_comments[l.author] =
                                 LRemUserComments(@, l.cid)]
       IN  StoreBecomes(s) /\ Return(p, l, "True", None, s)

\* A delete that does nothing for a user who is not the post's author.
delete_post_of_author(p, uid, pid) ==
    /\ Free(p)
    /\ LET l == [NoLoc EXCEPT !.op = "delete", !.uid = uid, !.pid = pid,
                              !.author = post[pid].uid]
       IN  IF post[pid].uid = None
           THEN EnterReturn(p, l, "TypeError", Store)
           ELSE IF post[pid].uid # uid
           THEN EnterReturn(p, l, "False", Store)
           ELSE Enter(p, l, "delete_post_hash")
    /\ UNCHANGED store

\* backend.py 531-533: no cid, the post's author;
\* int(r.hget(K.POST % pid, 'uid')) raises TypeError on None.
delete_post(p, uid, pid) ==
    /\ Free(p)
    /\ LET l == [NoLoc EXCEPT !.op = "delete", !.uid = uid, !.pid = pid,
                              !.author = post[pid].uid]
       IN  IF post[pid].uid = None
           THEN EnterReturn(p, l, "TypeError", Store)
           ELSE Enter(p, l, "delete_post_hash")
    /\ UNCHANGED store

\* backend.py 535: r.delete(K.POST % pid).
delete_post_hash(p) ==
    /\ pc[p] = "delete_post_hash"
    /\ Command(p, [Store EXCEPT !.post[loc[p].pid] = NoPost],
               "delete_post_votes")

\* A delete that takes back from the author what the votes on the post
\* gave (never below zero).
delete_post_votes_undone(p) ==
    /\ pc[p] = "delete_post_votes"
    /\ LET l == loc[p]
           n == Cardinality({u \in Users : post_votes[l.pid][u] = 1})
           s == user_score[l.author]
       IN  Command(p, [Store EXCEPT
                         !.post_votes[l.pid] = EmptyZ,
                         !.user_score[l.author] = IF s < n THEN 0 ELSE s - n],
                   "delete_post_subscribers")

\* backend.py 536: r.delete(K.POST_VOTES % pid).
delete_post_votes(p) ==
    /\ pc[p] = "delete_post_votes"
    /\ Command(p, [Store EXCEPT !.post_votes[loc[p].pid] = EmptyZ],
               "delete_post_subscribers")

\* backend.py 538: r.delete(K.POST_SUBSCRIBERS % pid).
delete_post_subscribers(p) ==
    /\ pc[p] = "delete_post_subscribers"
    /\ Command(p, [Store EXCEPT !.post_subscribers[loc[p].pid] = EmptyZ],
               "delete_post_lrem_user")

\* backend.py 540: r.lrem(K.USER_POSTS % author_id, 0, pid).
delete_post_lrem_user(p) ==
    /\ pc[p] = "delete_post_lrem_user"
    /\ Command(p, [Store EXCEPT !.user_posts[loc[p].author] =
                                   LRem(@, loc[p].pid)],
               "delete_comments_lrange")

\* backend.py 489: cids = r.lrange(K.POST_COMMENTS % pid, 0, -1).
delete_comments_lrange(p) ==
    /\ pc[p] = "delete_comments_lrange"
    /\ pc' = [pc EXCEPT ![p] = "delete_comments_loop"]
    /\ loc' = [loc EXCEPT ![p].cids = post_comments[loc[p].pid]]
    /\ hist' = hist
    /\ UNCHANGED store

\* backend.py 490-495: the next cid of the loop and its comment's author,
\* int(r.hget('comment:%d' % cid, 'uid')) raising TypeError on None;
\* 502-503 and 543 after the last: r.delete(K.POST_COMMENTS % pid), True.
delete_comments_loop(p) ==
    /\ pc[p] = "delete_comments_loop"
    /\ LET l == loc[p]
       IN  IF l.cids = <<>>
           THEN LET s == [Store EXCEPT !.post_comments[l.pid] = <<>>]
                IN  StoreBecomes(s) /\ Return(p, l, "True", None, s)
           ELSE IF comment[Head(l.cids)].uid = None
           THEN UNCHANGED store /\ Return(p, l, "TypeError", None, Store)
           ELSE /\ UNCHANGED store
                /\ pc' = [pc EXCEPT ![p] = "delete_comments_hash"]
                /\ loc' = [loc EXCEPT
                             ![p].author = comment[Head(l.cids)].uid]
                /\ hist' = hist

\* backend.py 497: r.delete(K.COMMENT % cid).
delete_comments_hash(p) ==
    /\ pc[p] = "delete_comments_hash"
    /\ Command(p, [Store EXCEPT !.comment[Head(loc[p].cids)] = NoComment],
               "delete_comments_votes")

\* backend.py 498: r.delete(K.COMMENT_VOTES % cid).
delete_comments_votes(p) ==
    /\ pc[p] = "delete_comments_votes"
    /\ Command(p,
               [Store EXCEPT !.comment_votes[Head(loc[p].cids)] = EmptyZ],
               "delete_comments_lrem_user")

\* backend.py 501: r.lrem(K.USER_COMMENTS % author_id, 0, cid); the loop
\* goes on with the next cid.
delete_comments_lrem_user(p) ==
    /\ pc[p] = "delete_comments_lrem_user"
    /\ LET l == loc[p]
       IN  /\ StoreBecomes([Store EXCEPT !.user_comments[l.author] =
                               LRemUserComments(@, Head(l.cids))])
           /\ pc' = [pc EXCEPT ![p] = "delete_comments_loop"]
           /\ loc' = [loc EXCEPT ![p].cids = Tail(l.cids)]
           /\ hist' = hist

\* ------------------------------------------------------------ parse_tags
\* pjuu.auth.backend get_uid_username: the uid of the user with that
\* username, None if there is none.
get_uid_username(name) == IF name \in Users THEN name ELSE None

\* backend.py 135-145: the loop of parse_tags from the i-th tag on, `seen`
\* being the uids already taken.  An entry is the uid, the name and the
\* place of the tag in the body.
RECURSIVE ParseFrom(_, _, _, _)
ParseFrom(body, send_all, i, seen) ==
    IF i > Len(body) THEN <<>>
    ELSE LET uid == get_uid_username(body[i])
             entry == [uid |-> uid, name |-> body[i], span |-> i]
         IN  IF uid = None THEN ParseFrom(body, send_all, i + 1, seen)
             ELSE IF send_all
             THEN <<entry>> \o ParseFrom(body, send_all, i + 1, seen)
             ELSE IF uid \notin seen
             THEN <<entry>> \o ParseFrom(body, send_all, i + 1,
                                         seen \cup {uid})
             ELSE ParseFrom(body, send_all, i + 1, seen)

\* A parse_tags that never deduplicates.
parse_tags_all(body, send_all) == ParseFrom(body, TRUE, 1, {})

\* backend.py 114-147.
parse_tags(body, send_all) == ParseFrom(body, send_all, 1, {})

\* parse_tags as a call of a worker: it reads no key of the store (the
\* usernames do not change here) and returns the list.
call_parse_tags(p, body, send_all) ==
    /\ Free(p)
    /\ EnterReturn(p, [NoLoc EXCEPT !.op = "parse_tags", !.body = body,
                                    !.arg = IF send_all THEN 1 ELSE 0],
                   parse_tags(body, send_all), Store)
    /\ UNCHANGED store

\* Tagees that keep the author.
TageesWithSelf(uid, body) ==
    LET tags == parse_tags(body, FALSE)
    IN  [k \in 1..Len(tags) |-> tags[k].uid]

\* backend.py 286-288 (and 212-214): the tagees the loop subscribes and
\* alerts, `if tagee[0] != uid`.
Tagees(uid, body) ==
    LET tags == parse_tags(body, FALSE)
        uids == [k \in 1..Len(tags) |-> tags[k].uid]
    IN  SelectSeq(uids, LAMBDA t : t # uid)

\* ------------------------------------------------------------------ ids
\* An allocation that gives out the lowest pid that has no record.
LowestFreePid(s) ==
    IF \E i \in Pids : ~s.post[i].ex
    THEN CHOOSE i \in Pids : ~s.post[i].ex /\ \A j \in 1..(i - 1) : s.post[j].ex
    ELSE s.global_pid + 1

\* backend.py 179: r.incr(K.GLOBAL_PID), the value it returns and leaves.
NextPid(s) == s.global_pid + 1
\* backend.py 232: r.incr(K.GLOBAL_CID), the value it returns and leaves.
NextCid(s) == s.global_cid + 1

\* -------------------------------------------------------- create_comment
\* backend.py 230-232: cid = r.incr(K.GLOBAL_CID).
create_comment(p, uid, pid, body) ==
    /\ Free(p)
    /\ global_cid < MaxCid
    /\ LET l == [NoLoc EXCEPT !.op = "create_comment", !.uid = uid,
                              !.pid = pid, !.body = body,
                              !.newid = NextCid(Store)]
       IN  Enter(p, l, "create_comment_pipe")
    /\ StoreBecomes([Store EXCEPT !.global_cid = NextCid(Store)])

\* backend.py 243-253: one pipeline: the comment hash, the cid on the post's
\* comment list and on the commenter's comment list.
create_comment_pipe(p) ==
    /\ pc[p] = "create_comment_pipe"
    /\ LET l == loc[p]
       IN  Command(p,
               [Store EXCEPT
                  !.comment[l.newid] = [ex |-> TRUE, uid |-> l.uid,
                                        pid |-> l.pid, score |-> 0],
                  !.post_comments[l.pid] = LPush(@, l.newid),
                  !.user_comments[l.uid] = LPush(@, l.newid)],
               "create_comment_alert")

\* backend.py 260 (PostingAlert.__init__, 63-70):
\* int(r.hget(K.POST % pid, 'uid')) raises TypeError on None.
create_comment_alert(p) ==
    /\ pc[p] = "create_comment_alert"
    /\ IF post[loc[p].pid].uid = None
       THEN Return(p, loc[p], "TypeError", loc[p].newid, Store)
       ELSE Goto(p, "create_comment_subscribers")
    /\ UNCHANGED store

\* Recipients that include the commenter.
EverySubscriber(subs, uid) == subs

\* backend.py 262-269: the subscribers but the commenter.
Subscribers(subs, uid) == SelectSeq(subs, LAMBDA x : x # uid)

\* backend.py 264-272: get_subscribers(pid), and the commenting alert to
\* the subscribers but the commenter.
create_comment_subscribers(p) ==
    /\ pc[p] = "create_comment_subscribers"
    /\ LET l == loc[p]
           to == Subscribers(ZRange(post_subscribers[l.pid]), l.uid)
       IN  /\ loc' = [loc EXCEPT ![p].alerts =
                         Append(@, [kind |-> "commenting", to |-> to])]
           /\ pc' = [pc EXCEPT ![p] = "create_comment_subscribe"]
           /\ hist' = hist
    /\ UNCHANGED store

\* backend.py 276, subscribe(uid, pid, COMMENTER), its EXISTS (559-561).
create_comment_subscribe(p) ==
    /\ pc[p] = "create_comment_subscribe"
    /\ IF post[loc[p].pid].ex
       THEN Goto(p, "create_comment_subscribe_add")
       ELSE Goto(p, "create_comment_tagging")
    /\ UNCHANGED store

\* backend.py 276, subscribe(uid, pid, COMMENTER), its Lua call (565-566).
create_comment_subscribe_add(p) ==
    /\ pc[p] = "create_comment_subscribe_add"
    /\ LET l == loc[p]
       IN  Command(p,
               [Store EXCEPT !.post_subscribers[l.pid] =
                               SubscribeAdd(@, COMMENTER, l.uid).z],
               "create_comment_tagging")

\* backend.py 281-284: TaggingAlert(uid, pid), raising TypeError as above,
\* and tagees = parse_tags(body).
create_comment_tagging(p) ==
    /\ pc[p] = "create_comment_tagging"
    /\ IF post[loc[p].pid].uid = None
       THEN Return(p, loc[p], "TypeError", loc[p].newid, Store)
       ELSE /\ pc' = [pc EXCEPT ![p] = "create_comment_tagees"]
            /\ loc' = [loc EXCEPT ![p].tagees =
                           Tagees(loc[p].uid, loc[p].body)]
            /\ hist' = hist
    /\ UNCHANGED store

\* backend.py 286-290: the next tagee, subscribe(tagee[0], pid, TAGEE), its
\* EXISTS; a tagee is alerted whatever subscribe returns.
\* backend.py 293-295 after the last: the tagging alert; return cid.
create_comment_tagees(p) ==
    /\ pc[p] = "create_comment_tagees"
    /\ LET l == loc[p]
       IN  IF l.tagees = <<>>
           THEN Return(p,
                    [l EXCEPT !.alerts =
                        Append(@, [kind |-> "tagging",
                                   to |-> l.tagees_to_alert])],
                    "id", l.newid, Store)
           ELSE IF post[l.pid].ex
           THEN Goto(p, "create_comment_tagee_add")
           ELSE /\ pc' = pc
                /\ loc' = [loc EXCEPT
                             ![p].tagees = Tail(@),
                             ![p].tagees_to_alert = Append(@, Head(l.tagees))]
                /\ hist' = hist
    /\ UNCHANGED store

\* backend.py 289-290: subscribe(tagee[0], pid, TAGEE), its Lua call, and
\* tagees_to_alert.append(tagee[0]).
create_comment_tagee_add(p) ==
    /\ pc[p] = "create_comment_tagee_add"
    /\ LET l == loc[p]
       IN  /\ StoreBecomes([Store EXCEPT !.post_subscribers[l.pid] =
                               SubscribeAdd(@, TAGEE, Head(l.tagees)).z])
           /\ pc' = [pc EXCEPT ![p] = "create_comment_tagees"]
           /\ loc' = [loc EXCEPT
                        ![p].tagees = Tail(@),
                        ![p].tagees_to_alert = Append(@, Head(l.tagees))]
           /\ hist' = hist

\* ----------------------------------------------------------- create_post
\* backend.py 178-179: pid = r.incr(K.GLOBAL_PID).
create_post(p, uid, body) ==
    /\ Free(p)
    /\ global_pid < MaxPid
    /\ LET l == [NoLoc EXCEPT !.op = "create_post", !.uid = uid,
                              !.body = body, !.newid = NextPid(Store)]
       IN  Enter(p, l, "create_post_pipe")
    /\ StoreBecomes([Store EXCEPT !.global_pid = NextPid(Store)])

\* backend.py 190-199: one pipeline: the post hash, the pid on the author's
\* post list and on the author's feed, the feed trimmed to the cap.
create_post_pipe(p) ==
    /\ pc[p] = "create_post_pipe"
    /\ LET l == loc[p]
       IN  Command(p,
               [Store EXCEPT
                  !.post[l.newid] = [ex |-> TRUE, uid |-> l.uid, score |-> 0],
                  !.user_posts[l.uid] = LPush(@, l.newid),
                  !.user_feed[l.uid] = LTrim(LPush(@, l.newid), FeedCap)],
               "populate_feeds")

\* backend.py 162: followers = r.zrange(K.USER_FOLLOWERS % uid, 0, -1).
populate_feeds(p) ==
    /\ pc[p] = "populate_feeds"
    /\ LET followers == ZRange(user_followers[loc[p].uid])
       IN  /\ pc' = [pc EXCEPT ![p] = IF followers = <<>>
                                      THEN "create_post_subscribe"
                                      ELSE "populate_feeds_lpush"]
           /\ loc' = [loc EXCEPT ![p].followers = followers]
           /\ hist' = hist
    /\ UNCHANGED store

\* backend.py 167: r.lpush(K.USER_FEED % fid, pid), a command of its own.
populate_feeds_lpush(p) ==
    /\ pc[p] = "populate_feeds_lpush"
    /\ LET l == loc[p]
       IN  Command(p,
               [Store EXCEPT !.user_feed[Head(l.followers)] =
                               LPush(@, l.newid)],
               "populate_feeds_ltrim")

\* backend.py 170: r.ltrim(K.USER_FEED % fid, 0, 999), and the next
\* follower of the loop at 164.
populate_feeds_ltrim(p) ==
    /\ pc[p] = "populate_feeds_ltrim"
    /\ LET l == loc[p]
       IN  /\ StoreBecomes([Store EXCEPT !.user_feed[Head(l.followers)] =
                               LTrim(@, FeedCap)])
           /\ pc' = [pc EXCEPT ![p] = IF Tail(l.followers) = <<>>
                                      THEN "create_post_subscribe"
                                      ELSE "populate_feeds_lpush"]
           /\ loc' = [loc EXCEPT ![p].followers = Tail(@)]
           /\ hist' = hist

\* backend.py 204, subscribe(uid, pid, POSTER), its EXISTS (559-561).
create_post_subscribe(p) ==
    /\ pc[p] = "create_post_subscribe"
    /\ IF post[loc[p].newid].ex
       THEN Goto(p, "create_post_subscribe_add")
       ELSE Goto(p, "create_post_tagging")
    /\ UNCHANGED store

\* backend.py 204, subscribe(uid, pid, POSTER), its Lua call (565-566).
create_post_subscribe_add(p) ==
    /\ pc[p] = "create_post_subscribe_add"
    /\ LET l == loc[p]
       IN  Command(p,
               [Store EXCEPT !.post_subscribers[l.newid] =
                               SubscribeAdd(@, POSTER, l.uid).z],
               "create_post_tagging")

\* backend.py 207-209: TaggingAlert(uid, pid) (PostingAlert.__init__,
\* 63-70: int(r.hget(K.POST % pid, 'uid')) raises TypeError on None), and
\* tagees = parse_tags(body).
create_post_tagging(p) ==
    /\ pc[p] = "create_post_tagging"
    /\ IF post[loc[p].newid].uid = None
       THEN Return(p, loc[p], "TypeError", loc[p].newid, Store)
       ELSE /\ pc' = [pc EXCEPT ![p] = "create_post_tagees"]
            /\ loc' = [loc EXCEPT ![p].tagees =
                           Tagees(loc[p].uid, loc[p].body)]
            /\ hist' = hist
    /\ UNCHANGED store

\* backend.py 212-218: the next tagee, subscribe(tagee[0], pid, TAGEE), its
\* EXISTS; a tagee is alerted whatever subscribe returns.
\* backend.py 221-223 after the last: the tagging alert; return pid.
create_post_tagees(p) ==
    /\ pc[p] = "create_post_tagees"
    /\ LET l == loc[p]
       IN  IF l.tagees = <<>>
           THEN Return(p,
                    [l EXCEPT !.alerts =
                        Append(@, [kind |-> "tagging",
                                   to |-> l.tagees_to_alert])],
                    "id", l.newid, Store)
           ELSE IF post[l.newid].ex
           THEN Goto(p, "create_post_tagee_add")
           ELSE /\ pc' = pc
                /\ loc' = [loc EXCEPT
                             ![p].tagees = Tail(@),
                             ![p].tagees_to_alert = Append(@, Head(l.tagees))]
                /\ hist' = hist
    /\ UNCHANGED store

\* backend.py 216-218: subscribe(tagee[0], pid, TAGEE), its Lua call, and
\* tagees_to_alert.append(tagee[0]).
create_post_tagee_add(p) ==
    /\ pc[p] = "create_post_tagee_add"
    /\ LET l == loc[p]
       IN  /\ StoreBecomes([Store EXCEPT !.post_subscribers[l.newid] =
                               SubscribeAdd(@, TAGEE, Head(l.tagees)).z])
           /\ pc' = [pc EXCEPT ![p] = "create_post_tagees"]
           /\ loc' = [loc EXCEPT
                        ![p].tagees = Tail(@),
                        ![p].tagees_to_alert = Append(@, Head(l.tagees))]
           /\ hist' = hist

\* ---------------------------------------------------------- Python values
\* What a caller can hand over as an identifier: None, an int, the decimal
\* string of an int, or a string that is no number (such as 'abc').
PyNone == [t |-> "None", v |-> 0]
PyInt(n) == [t |-> "int", v |-> n]
PyNumStr(n) == [t |-> "numstr", v |-> n]
PyStr == [t |-> "str", v |-> 0]

\* int(x): the int, or the exception int raises.
int(x) ==
    IF x.t \in {"int", "numstr"} THEN [exc |-> "no", v |-> x.v]
    ELSE IF x.t = "None" THEN [exc |-> "TypeError", v |-> 0]
    ELSE [exc |-> "ValueError", v |-> 0]

\* `if x:`: None, 0 and '' are false; a string that is not empty is true.
Truthy(x) == x.t \in {"numstr", "str"} \/ (x.t = "int" /\ x.v # 0)

\* r.hget(K.POST % pid, 'uid') and r.hget(K.COMMENT % cid, field) in the
\* store value s: None for a key or a field that is not there.
HGetPost(s, pid) == IF pid \in Pids THEN s.post[pid] ELSE NoPost
HGetComment(s, cid) == IF cid \in Cids THEN s.comment[cid] ELSE NoComment
HGetUser(s, uid) == uid \in Users /\ s.user[uid]

\* try ... except `caught`: return value.
Except(result, caught, value) == IF result \in caught THEN value ELSE result

\* ------------------------------------------------------------ check_post
\* backend.py 310-328, the body of the try: what it returns or raises.
check_post_try(s, uid, pid, cid) ==
    IF int(uid).exc # "no" THEN int(uid).exc
    ELSE IF int(pid).exc # "no" THEN int(pid).exc
    ELSE LET pid_check == HGetComment(s, int(cid).v).pid
             uid_check == HGetPost(s, int(pid).v).uid
         IN  IF Truthy(cid) /\ int(cid).exc # "no" THEN int(cid).exc
             ELSE IF Truthy(cid) /\ pid_check = None THEN "TypeError"
             ELSE IF Truthy(cid) /\ pid_check # int(pid).v THEN "False"
             ELSE IF uid_check = None THEN "TypeError"
             ELSE IF uid_check # int(uid).v THEN "False"
             ELSE "True"

\* backend.py 298-332.
check_post(s, uid, pid, cid) ==
    Except(check_post_try(s, uid, pid, cid), {"TypeError", "ValueError"},
           "False")

\* ------------------------------------------------- get_post, get_comment
\* backend.py 335-357: "view" for the merged view, "None", or what it
\* raises.  A hash without the field 'uid' gives KeyError at 345, a user
\* hash without 'username' gives KeyError at 348.
get_post_try(s, pid) ==
    LET post_ == HGetPost(s, pid)
    IN  IF post_.uid = None THEN "KeyError"
        ELSE IF ~HGetUser(s, post_.uid) THEN "KeyError"
        ELSE "view"

get_post(s, pid) ==
    IF int(pid).exc # "no" THEN int(pid).exc
    ELSE IF ~HGetPost(s, int(pid).v).ex THEN "None"
    ELSE Except(get_post_try(s, int(pid).v), {"KeyError", "ValueError"},
                "None")

\* backend.py 360-388: as get_post, and int(r.hget(K.POST % pid, 'uid'))
\* at 378 raises TypeError if the parent post has no 'uid'.
get_comment_try(s, cid) ==
    LET comment_ == HGetComment(s, cid)
    IN  IF comment_.uid = None THEN "KeyError"
        ELSE IF ~HGetUser(s, comment_.uid) THEN "KeyError"
        ELSE IF comment_.pid = None THEN "KeyError"
        ELSE IF HGetPost(s, comment_.pid).uid = None THEN "TypeError"
        ELSE "view"

get_comment(s, cid) ==
    IF int(cid).exc # "no" THEN int(cid).exc
    ELSE IF ~HGetComment(s, int(cid).v).ex THEN "None"
    ELSE Except(get_comment_try(s, int(cid).v), {"KeyError", "ValueError"},
                "None")

\* The reads as calls of a worker.  They write nothing; where nothing else
\* writes, their round-trips all find the store of the first.
call_check_post(p, uid, pid, cid) ==
    /\ Free(p)
    /\ EnterReturn(p, [NoLoc EXCEPT !.op = "check_post", !.uid = uid,
                                    !.pid = pid, !.cid = cid],
                   check_post(Store, uid, pid, cid), Store)
    /\ UNCHANGED store

call_get_post(p, pid) ==
    /\ Free(p)
    /\ EnterReturn(p, [NoLoc EXCEPT !.op = "get_post", !.pid = pid],
                   get_post(Store, pid), Store)
    /\ UNCHANGED store

call_get_comment(p, cid) ==
    /\ Free(p)
    /\ EnterReturn(p, [NoLoc EXCEPT !.op = "get_comment", !.cid = cid],
                   get_comment(Store, cid), Store)
    /\ UNCHANGED store

\* ---------------------------------------------------------- PostingAlert
\* backend.py 63-70: PostingAlert(uid, pid).  BaseAlert.__init__ keeps uid,
\* the user the alert is from; author_uid is read from the post, and int
\* raises TypeError if the post is not there.  The alert is remembered by
\* the call that made it: uid, pid and, in arg, author_uid.
PostingAlert(p, uid, pid) ==
    /\ Free(p)
    /\ LET l == [NoLoc EXCEPT !.op = "PostingAlert", !.uid = uid, !.pid = pid,
                              !.arg = post[pid].uid]
       IN  EnterReturn(p, l,
                       IF post[pid].uid = None THEN "TypeError" ELSE "alert",
                       Store)
    /\ UNCHANGED store

\* The alerts made so far.
Alerts ==
    {[uid |-> hist[i].uid, pid |-> hist[i].pid, author_uid |-> hist[i].arg] :
        i \in {k \in 1..Len(hist) :
                 hist[k].op = "PostingAlert" /\ hist[k].ret = "alert"}}

\* backend.py 72-76: verify, `r.exists(K.USER % self.uid) and ...`: False
\* at once if the user is not there.
verify(p, alert) ==
    /\ Free(p)
    /\ LET l == [NoLoc EXCEPT !.op = "verify", !.uid = alert.uid,
                              !.pid = alert.pid, !.arg = alert.author_uid]
       IN  IF user[alert.uid]
           THEN Enter(p, l, "verify_post")
           ELSE EnterReturn(p, l, "False", Store)
    /\ UNCHANGED store

\* backend.py 76: `... and r.exists(K.POST % self.pid)`.
verify_post(p) ==
    /\ pc[p] = "verify_post"
    /\ Return(p, loc[p], IF post[loc[p].pid].ex THEN "True" ELSE "False",
              None, Store)
    /\ UNCHANGED store

\* The user record of uid is deleted (account deletion, pjuu.auth.backend).
delete_user(p, uid) ==
    /\ Free(p)
    /\ user[uid]
    /\ user' = [user EXCEPT ![uid] = FALSE]
    /\ EnterReturn(p, [NoLoc EXCEPT !.op = "delete_user", !.uid = uid],
                   "True", [Store EXCEPT !.user = user'])
    /\ UNCHANGED <<global_pid, global_cid, post, comment, post_votes,
                   comment_votes, post_subscribers, post_comments, user_posts,
                   user_comments, user_feed, user_score, user_followers>>

\* ------------------------------------------- get_post, command by command
\* backend.py 339-345: post = r.hgetall(K.POST % pid); no hash gives None,
\* a hash without 'uid' KeyError, which is caught: None.
get_post_hgetall(p, pid) ==
    /\ Free(p)
    /\ LET l == [NoLoc EXCEPT !.op = "get_post", !.pid = pid,
                              !.author = post[pid].uid]
       IN  IF post[pid].ex /\ post[pid].uid # None
           THEN Enter(p, l, "get_post_user")
           ELSE EnterReturn(p, l, PyNone, Store)
    /\ UNCHANGED store

\* backend.py 346-350: user_dict = r.hgetall(K.USER % uid); a user hash
\* that is not there gives KeyError at 348: None.
get_post_user(p) ==
    /\ pc[p] = "get_post_user"
    /\ IF user[loc[p].author]
       THEN /\ pc' = [pc EXCEPT ![p] = "get_post_llen"]
            /\ loc' = [loc EXCEPT
                         ![p].user_score = user_score[loc[p].author]]
            /\ hist' = hist
       ELSE Return(p, loc[p], PyNone, None, Store)
    /\ UNCHANGED store

\* A view that counts the comments the post was created with: none.
get_post_llen_created(p) ==
    /\ pc[p] = "get_post_llen"
    /\ Return(p, loc[p],
              [t |-> "dict", user_score |-> loc[p].user_score,
               comment_count |-> 0],
              None, Store)
    /\ UNCHANGED store

\* backend.py 351, 355: post['comment_count'] = r.llen(K.POST_COMMENTS %
\* pid); return post.  Of the dict, the two fields that are looked up.
get_post_llen(p) ==
    /\ pc[p] = "get_post_llen"
    /\ Return(p, loc[p],
              [t |-> "dict", user_score |-> loc[p].user_score,
               comment_count |-> Len(post_comments[loc[p].pid])],
              None, Store)
    /\ UNCHANGED store

\* ------------------------------------------------ CommentingAlert.prettify
\* backend.py 95-103: the clause for a subscription reason; zscore gives the
\* reason as a number equal to the constant, or None.
VerbOf(reason) ==
    IF reason = POSTER THEN "posted"
    ELSE IF reason = COMMENTER THEN "commented on"
    ELSE IF reason = TAGEE THEN "were tagged in"
    ELSE "are subscribed too"

\* A prettify that takes the reason of the user the alert is from.
prettify_for_sender(p, alert, for_uid) ==
    /\ Free(p)
    /\ EnterReturn(p, [NoLoc EXCEPT !.op = "prettify", !.uid = for_uid,
                                    !.pid = alert.pid, !.arg = alert.uid],
                   VerbOf(ZScore(post_subscribers[alert.pid], alert.uid)),
                   Store)
    /\ UNCHANGED store

\* backend.py 91-111: prettify(for_uid) of a commenting alert: the reason
\* is read when the alert is rendered (93); the call is remembered with
\* the recipient in uid, the sender in arg and the clause as its result.
prettify(p, alert, for_uid) ==
    /\ Free(p)
    /\ EnterReturn(p, [NoLoc EXCEPT !.op = "prettify", !.uid = for_uid,
                                    !.pid = alert.pid, !.arg = alert.uid],
                   VerbOf(ZScore(post_subscribers[alert.pid], for_uid)),
                   Store)
    /\ UNCHANGED store

\* ------------------------------------------------------------ lookups
subscription_reason(uid, pid) == ZScore(post_subscribers[pid], uid)

\* backend.py 582-588: get_subscribers, ZRANGE 0 -1: the members as Redis
\* returns them, strings of digits, by ascending score.
get_subscribers(pid) ==
    LET uids == ZRange(post_subscribers[pid])
    IN  [k \in 1..Len(uids) |-> PyNumStr(uids[k])]

\* backend.py 591-599: is_subscribed, `zrank(...) is not None`: uid has a
\* rank in the set.
is_subscribed(uid, pid) ==
    \E k \in 1..Len(ZRange(post_subscribers[pid])) :
       ZRange(post_subscribers[pid])[k] = uid

\* ---------------------------------------------------------------- stores
\* The store is the value s.
StoreIs(s) ==
    /\ global_pid = s.global_pid
    /\ global_cid = s.global_cid
    /\ post = s.post
    /\ comment = s.comment
    /\ post_votes = s.post_votes
    /\ comment_votes = s.comment_votes
    /\ post_subscribers = s.post_subscribers
    /\ post_comments = s.post_comments
    /\ user_posts = s.user_posts
    /\ user_comments = s.user_comments
    /\ user_feed = s.user_feed
    /\ user_score = s.user_score
    /\ user_followers = s.user_followers
    /\ user = s.user

Workers0 ==
    /\ pc = [p \in Procs |-> "idle"]
    /\ loc = [p \in Procs |-> NoLoc]
    /\ hist = <<>>

\* The store after create_post(a, '') on the empty store: post 1 by user a,
\* in a's post list and feed, a subscribed as POSTER.
OnePost(a) ==
    [NoStore EXCEPT
       !.global_pid = 1,
       !.post[1] = [ex |-> TRUE, uid |-> a, score |-> 0],
       !.post_subscribers[1] = ZAdd(EmptyZ, POSTER, a),
       !.user_posts[a] = <<1>>,
       !.user_feed[a] = <<1>>]

\* Post 1 by user 1 exists; pid 2 was never given out.
InitSub == StoreIs(OnePost(1)) /\ Workers0

\* The store s after create_comment(uid, pid, '') on it, run alone: comment
\* cid = global_cid + 1 by uid on post pid, in both comment lists, uid
\* subscribed as COMMENTER unless subscribed already.
WithComment(s, uid, pid) ==
    LET cid == s.global_cid + 1
    IN  [s EXCEPT
           !.global_cid = cid,
           !.comment[cid] = [ex |-> TRUE, uid |-> uid, pid |-> pid,
                             score |-> 0],
           !.post_comments[pid] = LPush(@, cid),
           !.user_comments[uid] = LPush(@, cid),
           !.post_subscribers[pid] = zadd_member_nx(@, COMMENTER, uid).z]

\* The store OnePost(1) after create_comment(1, 1, ''), vote(2, 1, 1, 1) and
\* delete(1, 1, 1), each run alone: cid 1 is used up and gone, and user 1
\* keeps the reputation the upvote gave (delete gives and takes no points).
OnePostUpvoted ==
    [OnePost(1) EXCEPT !.global_cid = 1, !.user_score[1] = 1]

\* Post 1 by user 1, who has reputation 0 or 1, with one comment by any
\* user; pid 2 was never given out.
InitVote ==
    /\ \E ca \in Users, s \in {OnePost(1), OnePostUpvoted} :
          StoreIs(WithComment(s, ca, 1))
    /\ Workers0

\* Workers subscribing to and unsubscribing from posts, concurrently.
NextSub ==
    \E p \in Procs :
       \/ /\ Entered < MaxCallsSub
          /\ \E uid \in Users, pid \in Pids, reason \in Reasons :
                subscribe_exists(p, uid, pid, reason)
       \/ /\ Entered < MaxCallsSub
          /\ \E uid \in Users, pid \in Pids : unsubscribe(p, uid, pid)
       \/ subscribe_add(p)

SpecSub == InitSub /\ [][NextSub]_vars

\* The store s after create_post(uid, '') on it, run alone: the next pid,
\* the post, uid's post list, the pid on the feed of uid and of each of
\* uid's followers (uid not being one), uid subscribed as POSTER.
WithPost(s, uid) ==
    LET pid == s.global_pid + 1
        F == ZMembers(s.user_followers[uid]) \cup {uid}
    IN  [s EXCEPT
           !.global_pid = pid,
           !.post[pid] = [ex |-> TRUE, uid |-> uid, score |-> 0],
           !.user_posts[uid] = LPush(@, pid),
           !.user_feed = [u \in Users |->
                            IF u \in F THEN LTrim(LPush(@[u], pid), FeedCap)
                            ELSE @[u]],
           !.post_subscribers[pid] = ZAdd(EmptyZ, POSTER, uid)]

\* The store s after vote(uid, pid, cid, amount) on it, run alone and
\* accepted: uid is not the author a of the target and has not voted on it.
WithVote(s, uid, pid, cid, amount) ==
    LET a == IF cid # None THEN s.comment[cid].uid ELSE s.post[pid].uid
        t == IF cid # None
             THEN [s EXCEPT !.comment_votes[cid] = ZAdd(@, amount, uid),
                            !.comment[cid].score = @ + amount]
             ELSE [s EXCEPT !.post_votes[pid] = ZAdd(@, amount, uid),
                            !.post[pid].score = @ + amount]
    IN  [t EXCEPT !.user_score[a] = @ + Clamp(s.user_score[a], amount)]

\* Posts 1 and 2 by users 1 and 2, and n comments: comment 1 by c1 on post 1,
\* comment 2 by c2 on post q.  User 3 upvoted post 1; comment 1 was
\* downvoted by a user who is not its author.
Commented(n, c1, c2, q) ==
    LET s0 == WithVote(WithPost(OnePost(1), 2), 3, 1, None, 1)
        s1 == WithVote(WithComment(s0, c1, 1), IF c1 = 1 THEN 2 ELSE 1,
                       1, 1, -1)
    IN  IF n = 0 THEN s0 ELSE IF n = 1 THEN s1 ELSE WithComment(s1, c2, q)

InitDel ==
    /\ \E n \in 0..2, c1 \in Users, c2 \in Users, q \in {1, 2} :
          StoreIs(Commented(n, c1, c2, q))
    /\ Workers0

\* The store OnePost(1) had its body tagged the users of T: they are
\* subscribed as TAGEE.
OnePostTagging(T) ==
    [OnePost(1) EXCEPT !.post_subscribers[1] =
        [u \in Users |-> IF u = 1 THEN POSTER
                         ELSE IF u \in T THEN TAGEE ELSE None]]

\* Post 1 by user 1, tagging none, one or both of the others, with no
\* comment or with comment 1 by any user; pid 2 was never given out.
InitCom ==
    /\ \E T \in SUBSET (Users \ {1}), k \in {None} \cup Users :
          StoreIs(IF k = None THEN OnePostTagging(T)
                  ELSE WithComment(OnePostTagging(T), k, 1))
    /\ Workers0

\* Workers commenting on a post.
NextCom ==
    \E p \in Procs :
       \/ /\ Entered < MaxCallsCom
          /\ \E uid \in Users, pid \in Pids, body \in Bodies :
                create_comment(p, uid, pid, body)
       \/ create_comment_pipe(p)
       \/ create_comment_alert(p)
       \/ create_comment_subscribers(p)
       \/ create_comment_subscribe(p)
       \/ create_comment_subscribe_add(p)
       \/ create_comment_tagging(p)
       \/ create_comment_tagees(p)
       \/ create_comment_tagee_add(p)

SpecCom == InitCom /\ [][NextCom]_vars

\* The target the view hands to vote: a post that exists and, if a comment
\* is named, a comment of that post (the view answers 404 otherwise).
Target(pid, cid) ==
    /\ post[pid].ex
    /\ cid # None => comment[cid].ex /\ comment[cid].pid = pid

\* Workers voting on posts and comments, concurrently.
NextVote ==
    \E p \in Procs :
       \/ /\ Entered < MaxCallsVote
          /\ \E uid \in Users, pid \in Pids, cid \in {None} \cup Cids,
                amount \in {1, -1} :
                /\ Target(pid, cid)
                /\ vote_has_voted(p, uid, pid, cid, amount)
       \/ vote_author(p)
       \/ vote_zadd(p)
       \/ vote_hincrby(p)
       \/ vote_user_score(p)
       \/ vote_user_hincrby(p)

SpecVote == InitVote /\ [][NextVote]_vars

\* The users whose requests reach delete: the author of post 1 and another.
Deleters == {1, 2}

\* Workers deleting posts and comments, concurrently.  delete checks
\* neither the owner nor that the comment is one of the post.
NextDel ==
    \E p \in Procs :
       \/ /\ Entered < MaxCallsDel
          /\ \E uid \in Deleters, pid \in Pids, cid \in Cids :
                delete_comment(p, uid, pid, cid)
       \/ /\ Entered < MaxCallsDel
          /\ \E uid \in Deleters, pid \in Pids : delete_post(p, uid, pid)
       \/ delete_comment_hash(p)
       \/ delete_comment_votes(p)
       \/ delete_comment_lrem_post(p)
       \/ delete_comment_lrem_user(p)
       \/ delete_post_hash(p)
       \/ delete_post_votes(p)
       \/ delete_post_subscribers(p)
       \/ delete_post_lrem_user(p)
       \/ delete_comments_lrange(p)
       \/ delete_comments_loop(p)
       \/ delete_comments_hash(p)
       \/ delete_comments_votes(p)
       \/ delete_comments_lrem_user(p)

SpecDel == InitDel /\ [][NextDel]_vars

\* Who follows whom when the posting starts: user 1 has no, one or two
\* followers, who have followed in either order (the score of a follower
\* is the time it followed, here 1 for the first and 2 for the second).
Followed ==
    {z \in [Users -> {None, 1, 2}] :
        /\ z[1] = None
        /\ {z[u] : u \in ZMembers(z)} = 1..Cardinality(ZMembers(z))}

\* The users who post: the one with followers and another.
Posters == {1, 2}

\* Nothing was posted yet, or one of the posters has posted once.
InitPost ==
    /\ \E z \in Followed, a \in {None} \cup Posters :
          LET s == [NoStore EXCEPT !.user_followers[1] = z]
          IN  StoreIs(IF a = None THEN s ELSE WithPost(s, a))
    /\ Workers0

\* The bodies they post: no tag, one tag (of a user, of oneself, of nobody),
\* the same user tagged twice, two users tagged in either order.
PostBodies == {b \in Bodies : Len(b) <= 1} \cup {<<2, 2>>, <<2, 3>>, <<3, 2>>}

\* Workers posting, concurrently.
NextPost ==
    \E p \in Procs :
       \/ /\ Entered < MaxCallsPost
          /\ \E uid \in Posters, body \in PostBodies :
                create_post(p, uid, body)
       \/ create_post_pipe(p)
       \/ populate_feeds(p)
       \/ populate_feeds_lpush(p)
       \/ populate_feeds_ltrim(p)
       \/ create_post_subscribe(p)
       \/ create_post_subscribe_add(p)
       \/ create_post_tagging(p)
       \/ create_post_tagees(p)
       \/ create_post_tagee_add(p)

SpecPost == InitPost /\ [][NextPost]_vars

\* User 1, whom user 2 follows, has posted once; nobody has commented, or
\* user 2 has commented on the post.
InitIds ==
    /\ \E k \in {0, 1} :
          LET s == WithPost([NoStore EXCEPT !.user_followers[1][2] = 1], 1)
          IN  StoreIs(IF k = 0 THEN s ELSE WithComment(s, 2, 1))
    /\ Workers0

\* The users who post, comment and delete, and what they write: no tag or
\* a tag of user 2.
IdUsers == {1, 2}
IdBodies == {<<>>, <<2>>}

\* Workers posting, commenting and deleting, concurrently.
NextIds ==
    \E p \in Procs :
       \/ /\ Entered < MaxCallsIds
          /\ \E uid \in IdUsers, body \in IdBodies : create_post(p, uid, body)
       \/ /\ Entered < MaxCallsIds
          /\ \E uid \in IdUsers, pid \in Pids, body \in IdBodies :
                create_comment(p, uid, pid, body)
       \/ /\ Entered < MaxCallsIds
          /\ \E pid \in Pids, cid \in Cids : delete_comment(p, 1, pid, cid)
       \/ /\ Entered < MaxCallsIds
          /\ \E pid \in Pids : delete_post(p, 1, pid)
       \/ create_post_pipe(p)
       \/ populate_feeds(p)
       \/ populate_feeds_lpush(p)
       \/ populate_feeds_ltrim(p)
       \/ create_post_subscribe(p)
       \/ create_post_subscribe_add(p)
       \/ create_post_tagging(p)
       \/ create_post_tagees(p)
       \/ create_post_tagee_add(p)
       \/ create_comment_pipe(p)
       \/ create_comment_alert(p)
       \/ create_comment_subscribers(p)
       \/ create_comment_subscribe(p)
       \/ create_comment_subscribe_add(p)
       \/ create_comment_tagging(p)
       \/ create_comment_tagees(p)
       \/ create_comment_tagee_add(p)
       \/ delete_comment_hash(p)
       \/ delete_comment_votes(p)
       \/ delete_comment_lrem_post(p)
       \/ delete_comment_lrem_user(p)
       \/ delete_post_hash(p)
       \/ delete_post_votes(p)
       \/ delete_post_subscribers(p)
       \/ delete_post_lrem_user(p)
       \/ delete_comments_lrange(p)
       \/ delete_comments_loop(p)
       \/ delete_comments_hash(p)
       \/ delete_comments_votes(p)
       \/ delete_comments_lrem_user(p)

SpecIds == InitIds /\ [][NextIds]_vars

\* The store s after create_comment(uid, pid, '') on it, run alone, post
\* pid not existing: the comment was written before PostingAlert raised.
WithOrphan(s, uid, pid) ==
    LET cid == s.global_cid + 1
    IN  [s EXCEPT
           !.global_cid = cid,
           !.comment[cid] = [ex |-> TRUE, uid |-> uid, pid |-> pid,
                             score |-> 0],
           !.post_comments[pid] = LPush(@, cid),
           !.user_comments[uid] = LPush(@, cid)]

\* Posts 1 and 2 by users 1 and 2, comment 1 by c on post 1 and, if o is a
\* user, comment 2 by o, written for post 3, which does not exist.
ReadStore(c, o) ==
    LET s == WithComment(WithPost(OnePost(1), 2), c, 1)
    IN  IF o = None THEN s ELSE WithOrphan(s, o, 3)

\* The store is one of those, and the accounts of `gone` were deleted
\* since.
InitRead ==
    /\ \E c \in Users, o \in {None} \cup Users, gone \in SUBSET Users :
          StoreIs([ReadStore(c, o) EXCEPT
                     !.user = [u \in Users |-> u \notin gone]])
    /\ Workers0

\* The identifiers the callers hand over.
UidArgs == {PyInt(u) : u \in Users} \cup {PyNone, PyStr}
PidArgs == {PyInt(n) : n \in 0..MaxPid} \cup {PyNone, PyStr}
CidArgs == {PyInt(n) : n \in 0..MaxCid} \cup {PyNone, PyStr, PyNumStr(0)}

\* Workers reading.
NextRead ==
    \E p \in Procs :
       \/ /\ Entered < MaxCallsRead
          /\ \E uid \in UidArgs, pid \in PidArgs, cid \in CidArgs :
                call_check_post(p, uid, pid, cid)
       \/ /\ Entered < MaxCallsRead
          /\ \E pid \in PidArgs : call_get_post(p, pid)
       \/ /\ Entered < MaxCallsRead
          /\ \E cid \in CidArgs : call_get_comment(p, cid)

SpecRead == InitRead /\ [][NextRead]_vars

\* Post 1 by user 1, with no comment or with comment 1 by user 2; posts 2
\* and 3 and comment 2 do not exist.
InitGone ==
    /\ \E k \in {0, 1} :
          StoreIs(IF k = 0 THEN OnePost(1) ELSE WithComment(OnePost(1), 2, 1))
    /\ Workers0

\* Workers voting, deleting and commenting, on what exists and on what
\* does not.
NextGone ==
    \E p \in Procs :
       \/ /\ Entered < MaxCallsGone
          /\ \E uid \in IdUsers, pid \in Pids, cid \in {None} \cup Cids,
                amount \in {1, -1} : vote_has_voted(p, uid, pid, cid, amount)
       \/ /\ Entered < MaxCallsGone
          /\ \E uid \in IdUsers, pid \in Pids, body \in IdBodies :
                create_comment(p, uid, pid, body)
       \/ /\ Entered < MaxCallsGone
          /\ \E pid \in Pids, cid \in Cids : delete_comment(p, 1, pid, cid)
       \/ /\ Entered < MaxCallsGone
          /\ \E pid \in Pids : delete_post(p, 1, pid)
       \/ vote_author(p)
       \/ vote_zadd(p)
       \/ vote_hincrby(p)
       \/ vote_user_score(p)
       \/ vote_user_hincrby(p)
       \/ create_comment_pipe(p)
       \/ create_comment_alert(p)
       \/ create_comment_subscribers(p)
       \/ create_comment_subscribe(p)
       \/ create_comment_subscribe_add(p)
       \/ create_comment_tagging(p)
       \/ create_comment_tagees(p)
       \/ create_comment_tagee_add(p)
       \/ delete_comment_hash(p)
       \/ delete_comment_votes(p)
       \/ delete_comment_lrem_post(p)
       \/ delete_comment_lrem_user(p)
       \/ delete_post_hash(p)
       \/ delete_post_votes(p)
       \/ delete_post_subscribers(p)
       \/ delete_post_lrem_user(p)
       \/ delete_comments_lrange(p)
       \/ delete_comments_loop(p)
       \/ delete_comments_hash(p)
       \/ delete_comments_votes(p)
       \/ delete_comments_lrem_user(p)

SpecGone == InitGone /\ [][NextGone]_vars

\* Post 1 by user 1, tagging none, one or both of the others; posts 2 and
\* 3 do not exist.
InitReason ==
    /\ \E T \in SUBSET (Users \ {1}) : StoreIs(OnePostTagging(T))
    /\ Workers0

\* Workers subscribing, unsubscribing and commenting (with and without a
\* tag), concurrently.
NextReason ==
    \E p \in Procs :
       \/ /\ Entered < MaxCallsReason
          /\ \E uid \in Users, pid \in Pids, reason \in Reasons :
                subscribe_exists(p, uid, pid, reason)
       \/ /\ Entered < MaxCallsReason
          /\ \E uid \in Users, pid \in Pids : unsubscribe(p, uid, pid)
       \/ /\ Entered < MaxCallsReason
          /\ \E uid \in Users, pid \in Pids, body \in IdBodies :
                create_comment(p, uid, pid, body)
       \/ subscribe_add(p)
       \/ create_comment_pipe(p)
       \/ create_comment_alert(p)
       \/ create_comment_subscribers(p)
       \/ create_comment_subscribe(p)
       \/ create_comment_subscribe_add(p)
       \/ create_comment_tagging(p)
       \/ create_comment_tagees(p)
       \/ create_comment_tagee_add(p)

SpecReason == InitReason /\ [][NextReason]_vars

\* ------------------------------------------------- SpecUnsub: unsubscribe
\* Post 1 by user 1, tagging none, one or both of the others, and post 2 by
\* user 2; pid 3 was never given out.
InitUnsub ==
    /\ \E T \in SUBSET (Users \ {1}) : StoreIs(WithPost(OnePostTagging(T), 2))
    /\ Workers0

\* Workers subscribing to and unsubscribing from two posts, concurrently.
NextUnsub ==
    \E p \in Procs :
       \/ /\ Entered < MaxCallsUnsub
          /\ \E uid \in Users, pid \in Pids, reason \in Reasons :
                subscribe_exists(p, uid, pid, reason)
       \/ /\ Entered < MaxCallsUnsub
          /\ \E uid \in Users, pid \in Pids : unsubscribe(p, uid, pid)
       \/ subscribe_add(p)

SpecUnsub == InitUnsub /\ [][NextUnsub]_vars

\* --------------------------------------------------- SpecTags: parse_tags
\* The bodies handed to parse_tags: up to MaxTagsParsed tags.
TagBodies == UNION {[1..n -> Names] : n \in 0..MaxTagsParsed}

InitTags == StoreIs(NoStore) /\ Workers0

\* Workers parsing bodies, for alerts (send_all False) and for highlighting
\* (send_all True).
NextTags ==
    \E p \in Procs :
       \/ /\ Entered < MaxCallsTags
          /\ \E body \in TagBodies : call_parse_tags(p, body, FALSE)
       \/ /\ Entered < MaxCallsTags
          /\ \E body \in TagBodies : call_parse_tags(p, body, TRUE)

SpecTags == InitTags /\ [][NextTags]_vars

\* ------------------------------------------------ SpecAlert: PostingAlert
\* Post 1 by user 1, with comment 1 by user 2, and post 2 by user 2; pid 3
\* was never given out.
InitAlert ==
    /\ StoreIs(WithComment(WithPost(OnePost(1), 2), 2, 1))
    /\ Workers0

\* Workers making alerts and verifying them, while posts and user records
\* are deleted.
NextAlert ==
    \E p \in Procs :
       \/ /\ Entered < MaxCallsAlert
          /\ \E uid \in Users, pid \in Pids : PostingAlert(p, uid, pid)
       \/ /\ Entered < MaxCallsAlert
          /\ \E alert \in Alerts : verify(p, alert)
       \/ /\ Entered < MaxCallsAlert
          /\ \E uid \in Users : delete_user(p, uid)
       \/ /\ Entered < MaxCallsAlert
          /\ \E pid \in Pids : delete_post(p, post[pid].uid, pid)
       \/ verify_post(p)
       \/ delete_post_hash(p)
       \/ delete_post_votes(p)
       \/ delete_post_subscribers(p)
       \/ delete_post_lrem_user(p)
       \/ delete_comments_lrange(p)
       \/ delete_comments_loop(p)
       \/ delete_comments_hash(p)
       \/ delete_comments_votes(p)
       \/ delete_comments_lrem_user(p)

SpecAlert == InitAlert /\ [][NextAlert]_vars

\* --------------------------------- SpecLedger: subscribing against delete
\* Post 1 by user 1, whom user 2 follows; pids 2 and 3 were never given
\* out.
InitLedger ==
    /\ StoreIs(WithPost([NoStore EXCEPT !.user_followers[1][2] = 1], 1))
    /\ Workers0

\* Workers subscribing (directly, and from create_post and create_comment)
\* while the author deletes posts.
NextLedger ==
    \E p \in Procs :
       \/ /\ Entered < MaxCallsLedger
          /\ \E uid \in Users, pid \in Pids, reason \in Reasons :
                subscribe_exists(p, uid, pid, reason)
       \/ /\ Entered < MaxCallsLedger
          /\ \E uid \in IdUsers, body \in IdBodies : create_post(p, uid, body)
       \/ /\ Entered < MaxCallsLedger
          /\ \E uid \in IdUsers, pid \in Pids, body \in IdBodies :
                create_comment(p, uid, pid, body)
       \/ /\ Entered < MaxCallsLedger
          /\ \E uid \in IdUsers, pid \in Pids : delete_post(p, uid, pid)
       \/ subscribe_add(p)
       \/ create_post_pipe(p)
       \/ populate_feeds(p)
       \/ populate_feeds_lpush(p)
       \/ populate_feeds_ltrim(p)
       \/ create_post_subscribe(p)
       \/ create_post_subscribe_add(p)
       \/ create_post_tagging(p)
       \/ create_post_tagees(p)
       \/ create_post_tagee_add(p)
       \/ create_comment_pipe(p)
       \/ create_comment_alert(p)
       \/ create_comment_subscribers(p)
       \/ create_comment_subscribe(p)
       \/ create_comment_subscribe_add(p)
       \/ create_comment_tagging(p)
       \/ create_comment_tagees(p)
       \/ create_comment_tagee_add(p)
       \/ delete_post_hash(p)
       \/ delete_post_votes(p)
       \/ delete_post_subscribers(p)
       \/ delete_post_lrem_user(p)
       \/ delete_comments_lrange(p)
       \/ delete_comments_loop(p)
       \/ delete_comments_hash(p)
       \/ delete_comments_votes(p)
       \/ delete_comments_lrem_user(p)

SpecLedger == InitLedger /\ [][NextLedger]_vars

\* ------------------------------------ SpecIndex: the comment lists
\* Post 1 by user 1, with no comment or with comment 1 by user 2.
InitIndex ==
    /\ \E k \in {0, 1} :
          StoreIs(IF k = 0 THEN OnePost(1) ELSE WithComment(OnePost(1), 2, 1))
    /\ Workers0

\* Workers commenting and deleting, concurrently, each call on a target the
\* view found: a post that exists, a comment of that post.
NextIndex ==
    \E p \in Procs :
       \/ /\ Entered < MaxCallsIndex
          /\ \E uid \in IdUsers, pid \in Pids, body \in IdBodies :
                post[pid].ex /\ create_comment(p, uid, pid, body)
       \/ /\ Entered < MaxCallsIndex
          /\ \E pid \in Pids, cid \in Cids :
                Target(pid, cid) /\ delete_comment(p, comment[cid].uid, pid, cid)
       \/ /\ Entered < MaxCallsIndex
          /\ \E pid \in Pids :
                post[pid].ex /\ delete_post(p, post[pid].uid, pid)
       \/ create_comment_pipe(p)
       \/ create_comment_alert(p)
       \/ create_comment_subscribers(p)
       \/ create_comment_subscribe(p)
       \/ create_comment_subscribe_add(p)
       \/ create_comment_tagging(p)
       \/ create_comment_tagees(p)
       \/ create_comment_tagee_add(p)
       \/ delete_comment_hash(p)
       \/ delete_comment_votes(p)
       \/ delete_comment_lrem_post(p)
       \/ delete_comment_lrem_user(p)
       \/ delete_post_hash(p)
       \/ delete_post_votes(p)
       \/ delete_post_subscribers(p)
       \/ delete_post_lrem_user(p)
       \/ delete_comments_lrange(p)
       \/ delete_comments_loop(p)
       \/ delete_comments_hash(p)
       \/ delete_comments_votes(p)
       \/ delete_comments_lrem_user(p)

SpecIndex == InitIndex /\ [][NextIndex]_vars

\* ------------------------------------- SpecTagging: the tagging alerts
\* What the posts and comments say: no tag, a tag of user 2, the same tag
\* twice, tags of users 1 and 2, a tag of user 3 and of nobody.
TaggingBodies == {<<>>, <<2>>, <<2, 2>>, <<1, 2>>, <<3, NUsers + 1>>}

\* Post 1 by user 1, whom user 2 follows; pids 2 and 3 were never given
\* out.
InitTagging ==
    /\ StoreIs(WithPost([NoStore EXCEPT !.user_followers[1][2] = 1], 1))
    /\ Workers0

\* Workers posting and commenting, concurrently.
NextTagging ==
    \E p \in Procs :
       \/ /\ Entered < MaxCallsTagging
          /\ \E uid \in IdUsers, body \in TaggingBodies :
                create_post(p, uid, body)
       \/ /\ Entered < MaxCallsTagging
          /\ \E uid \in IdUsers, pid \in Pids, body \in TaggingBodies :
                create_comment(p, uid, pid, body)
       \/ create_post_pipe(p)
       \/ populate_feeds(p)
       \/ populate_feeds_lpush(p)
       \/ populate_feeds_ltrim(p)
       \/ create_post_subscribe(p)
       \/ create_post_subscribe_add(p)
       \/ create_post_tagging(p)
       \/ create_post_tagees(p)
       \/ create_post_tagee_add(p)
       \/ create_comment_pipe(p)
       \/ create_comment_alert(p)
       \/ create_comment_subscribers(p)
       \/ create_comment_subscribe(p)
       \/ create_comment_subscribe_add(p)
       \/ create_comment_tagging(p)
       \/ create_comment_tagees(p)
       \/ create_comment_tagee_add(p)

SpecTagging == InitTagging /\ [][NextTagging]_vars

\* ------------------------------------ SpecRender: rendering the alerts
\* Post 1 by user 1, tagging none, one or both of the others, with comment
\* 1 by user 2.
InitRender ==
    /\ \E T \in SUBSET (Users \ {1}) :
          StoreIs(WithComment(OnePostTagging(T), 2, 1))
    /\ Workers0

\* Workers making commenting alerts and rendering them for their
\* recipients, while users unsubscribe.
NextRender ==
    \E p \in Procs :
       \/ /\ Entered < MaxCallsRender
          /\ \E uid \in IdUsers, pid \in Pids : PostingAlert(p, uid, pid)
       \/ /\ Entered < MaxCallsRender
          /\ \E alert \in Alerts, for_uid \in Users :
                prettify(p, alert, for_uid)
       \/ /\ Entered < MaxCallsRender
          /\ \E uid \in Users, pid \in Pids : unsubscribe(p, uid, pid)

SpecRender == InitRender /\ [][NextRender]_vars

\* ------------------------------------------ SpecView: reading a post
\* Post 1 by user 1 with comment 1 by user 1, who has reputation 0 or 1.
InitView ==
    /\ \E s \in {OnePost(1), OnePostUpvoted} : StoreIs(WithComment(s, 1, 1))
    /\ Workers0

\* Workers reading posts while others vote, comment and delete comments,
\* each call on a target the view found.
NextView ==
    \E p \in Procs :
       \/ /\ Entered < MaxCallsView
          /\ \E pid \in Pids : get_post_hgetall(p, pid)
       \/ /\ Entered < MaxCallsView
          /\ \E uid \in IdUsers, pid \in Pids, cid \in {None} \cup Cids,
                amount \in {1, -1} :
                /\ Target(pid, cid)
                /\ vote_has_voted(p, uid, pid, cid, amount)
       \/ /\ Entered < MaxCallsView
          /\ \E uid \in IdUsers, pid \in Pids :
                post[pid].ex /\ create_comment(p, uid, pid, <<>>)
       \/ /\ Entered < MaxCallsView
          /\ \E pid \in Pids, cid \in Cids :
                Target(pid, cid) /\ delete_comment(p, comment[cid].uid, pid, cid)
       \/ get_post_user(p)
       \/ get_post_llen(p)
       \/ vote_author(p)
       \/ vote_zadd(p)
       \/ vote_hincrby(p)
       \/ vote_user_score(p)
       \/ vote_user_hincrby(p)
       \/ create_comment_pipe(p)
       \/ create_comment_alert(p)
       \/ create_comment_subscribers(p)
       \/ create_comment_subscribe(p)
       \/ create_comment_subscribe_add(p)
       \/ create_comment_tagging(p)
       \/ create_comment_tagees(p)
       \/ delete_comment_hash(p)
       \/ delete_comment_votes(p)
       \/ delete_comment_lrem_post(p)
       \/ delete_comment_lrem_user(p)

SpecView == InitView /\ [][NextView]_vars

\* ================================================================ claims
IsSub(c, uid, pid) == c.op = "subscribe" /\ c.uid = uid /\ c.pid = pid
NotSubscribedIn(s, uid, pid) ==
    s.post[pid].ex /\ s.post_subscribers[pid][uid] = None

\* Two subscribe calls for (uid, pid) with different reasons, one after the
\* other with nothing in between, uid not subscribed before the first.
SubscribeTwice(i, uid, pid) ==
    /\ IsSub(hist[i], uid, pid) /\ IsSub(hist[i + 1], uid, pid)
    /\ hist[i].arg # hist[i + 1].arg
    /\ hist[i].solo /\ hist[i + 1].solo
    /\ NotSubscribedIn(hist[i].pre, uid, pid)

\* C1: subscribe(uid, pid, r1) then subscribe(uid, pid, r2), r1 # r2, on an
\* existing post uid is not subscribed to: the first returns True, the
\* second returns False, and subscription_reason(uid, pid) is r1 afterwards.
C1_FirstReasonWins ==
    \A i \in 1..(Len(hist) - 1), uid \in Users, pid \in Pids :
       SubscribeTwice(i, uid, pid) =>
          /\ hist[i].ret = "True"
          /\ hist[i + 1].ret = "False"
          /\ hist[i + 1].post.post_subscribers[pid][uid] = hist[i].arg

C1_Witness ==
    \E i \in 1..(Len(hist) - 1), uid \in Users, pid \in Pids :
       /\ SubscribeTwice(i, uid, pid)
       /\ hist[i + 1].ret = "False"
       /\ hist[i + 1].post.post_subscribers[pid][uid] = hist[i].arg

\* Two subscribe calls for (uid, pid) with different reasons that were both
\* entered before either returned, with no other call returning meanwhile,
\* uid not subscribed when they were entered.
SubscribeRace(i, uid, pid) ==
    /\ IsSub(hist[i], uid, pid) /\ IsSub(hist[i + 1], uid, pid)
    /\ hist[i].arg # hist[i + 1].arg
    /\ hist[i].t0 = i - 1 /\ hist[i + 1].t0 = i - 1
    /\ NotSubscribedIn(hist[i].pre, uid, pid)
    /\ NotSubscribedIn(hist[i + 1].pre, uid, pid)

\* C2: of two concurrent subscribe calls for the same (uid, pid) with
\* different reasons, uid not subscribed before, exactly one returns True and
\* the stored reason is the reason of that call.
C2_OneSubscribeWins ==
    \A i \in 1..(Len(hist) - 1), uid \in Users, pid \in Pids :
       SubscribeRace(i, uid, pid) =>
          LET a == hist[i]
              b == hist[i + 1]
              r == b.post.post_subscribers[pid][uid]
          IN  \/ a.ret = "True" /\ b.ret = "False" /\ r = a.arg
              \/ a.ret = "False" /\ b.ret = "True" /\ r = b.arg

C2_Witness ==
    \E i \in 1..(Len(hist) - 1), uid \in Users, pid \in Pids :
       /\ SubscribeRace(i, uid, pid)
       /\ hist[i].ret = "True"
       /\ hist[i + 1].ret = "False"

\* ---------------------------------------------------------------- votes
Targets == {t \in Pids \X ({None} \cup Cids) : TRUE}
IsVote(c, uid, t) ==
    c.op = "vote" /\ c.uid = uid /\ c.pid = t[1] /\ c.cid = t[2]
\* The target t in the store value s: its hash, its vote set, its author.
TargetHash(s, t) == IF t[2] # None THEN s.comment[t[2]] ELSE s.post[t[1]]
TargetVotes(s, t) ==
    IF t[2] # None THEN s.comment_votes[t[2]] ELSE s.post_votes[t[1]]
\* What a call on target t left as it found it: the target's score and
\* vote set and the reputation of user a.
VoteLeftAlone(c, t, a) ==
    /\ TargetHash(c.post, t) = TargetHash(c.pre, t)
    /\ TargetVotes(c.post, t) = TargetVotes(c.pre, t)
    /\ c.post.user_score[a] = c.pre.user_score[a]

\* Call j is a vote of uid on t entered after call i, an accepted vote of
\* uid on t, had returned, the target still being there.
VoteAgain(i, j, uid, t) ==
    /\ i < j
    /\ IsVote(hist[i], uid, t) /\ hist[i].ret = "True"
    /\ IsVote(hist[j], uid, t) /\ hist[j].t0 >= i
    /\ TargetHash(hist[j].pre, t).uid # None

\* C3: once a vote of uid on a post or comment was accepted, every later
\* vote of uid on it (up or down) returns False and leaves the score, the
\* recorded vote and the author's reputation as they were.
C3_SecondVoteRejected ==
    \A i, j \in 1..Len(hist), uid \in Users, t \in Targets :
       VoteAgain(i, j, uid, t) =>
          /\ hist[j].ret = "False"
          /\ VoteLeftAlone(hist[j], t, TargetHash(hist[j].pre, t).uid)

C3_Witness ==
    \E i, j \in 1..Len(hist), uid \in Users, t \in Targets :
       /\ VoteAgain(i, j, uid, t)
       /\ t[2] # None
       /\ hist[i].arg # hist[j].arg
       /\ hist[j].ret = "False"

\* C4 (the claim as stated): of the vote calls of one voter on one target
\* at most one is accepted, concurrent or not.
C4_AtMostOneVoteAccepted ==
    \A i, j \in 1..Len(hist), uid \in Users, t \in Targets :
       (i < j /\ IsVote(hist[i], uid, t) /\ IsVote(hist[j], uid, t)) =>
          ~(hist[i].ret = "True" /\ hist[j].ret = "True")

\* C5: a vote of the author on the author's own post or comment returns
\* False; run alone, it leaves the score, the vote set and the author's
\* reputation as they were.
C5_SelfVoteRejected ==
    \A i \in 1..Len(hist), uid \in Users, t \in Targets :
       (IsVote(hist[i], uid, t) /\ TargetHash(hist[i].pre, t).uid = uid) =>
          /\ hist[i].ret = "False"
          /\ hist[i].solo => VoteLeftAlone(hist[i], t, uid)

C5_Witness ==
    \E i \in 1..Len(hist), uid \in Users, t \in Targets :
       /\ IsVote(hist[i], uid, t) /\ TargetHash(hist[i].pre, t).uid = uid
       /\ t[2] # None /\ hist[i].pre.post[t[1]].uid # uid
       /\ TargetVotes(hist[i].pre, t)[uid] = None
       /\ hist[i].solo /\ hist[i].ret = "False"

\* Call i is an accepted downvote, run alone, on a target whose author a
\* had reputation 0.
DownvoteAtZero(i, t, a) ==
    /\ \E uid \in Users : IsVote(hist[i], uid, t)
    /\ hist[i].arg = -1 /\ hist[i].ret = "True" /\ hist[i].solo
    /\ TargetHash(hist[i].pre, t).uid = a
    /\ hist[i].pre.user_score[a] = 0

\* C6: an accepted downvote on a target of an author with reputation 0
\* leaves the reputation at 0 and takes exactly 1 off the target's score.
C6_ClampAtZero ==
    \A i \in 1..Len(hist), t \in Targets, a \in Users :
       DownvoteAtZero(i, t, a) =>
          /\ hist[i].post.user_score[a] = 0
          /\ TargetHash(hist[i].post, t).score
                = TargetHash(hist[i].pre, t).score - 1

C6_Witness ==
    \E i \in 1..Len(hist), t \in Targets, a \in Users :
       /\ DownvoteAtZero(i, t, a)
       /\ TargetHash(hist[i].post, t).score = -1

\* C7 (the claim as stated): no reputation is ever below zero.
C7_ReputationNeverNegative == \A u \in Users : user_score[u] >= 0

\* -------------------------------------------------------------- deletes
\* Call i is delete(uid, pid) of an existing post, run alone to its return.
PostDeleted(i, pid) ==
    /\ hist[i].op = "delete" /\ hist[i].pid = pid /\ hist[i].cid = None
    /\ hist[i].solo /\ hist[i].ret = "True"
    /\ hist[i].pre.post[pid].ex

\* In the store value s nothing is left of comment cid.
CommentGone(s, cid) ==
    /\ s.comment[cid] = NoComment
    /\ s.comment_votes[cid] = EmptyZ
    /\ \A u \in Users : cid \notin Range(s.user_comments[u])

\* C8: after delete(uid, pid) of a post with N >= 0 comments, run alone to
\* its return, the post's hash, vote set, subscriber set and comment list
\* are gone, pid is not in the author's post list, and of each of the N
\* comments the hash and vote set are gone and the cid is in no user's
\* comment list.
C8_PostDeleteCascades ==
    \A i \in 1..Len(hist), pid \in Pids :
       PostDeleted(i, pid) =>
          LET s == hist[i].post
              a == hist[i].pre.post[pid].uid
          IN  /\ s.post[pid] = NoPost
              /\ s.post_votes[pid] = EmptyZ
              /\ s.post_subscribers[pid] = EmptyZ
              /\ s.post_comments[pid] = <<>>
              /\ pid \notin Range(s.user_posts[a])
              /\ \A cid \in Range(hist[i].pre.post_comments[pid]) :
                    CommentGone(s, cid)

C8_Witness ==
    \E i \in 1..Len(hist), pid \in Pids :
       /\ PostDeleted(i, pid)
       /\ Len(hist[i].pre.post_comments[pid]) = 2
       /\ hist[i].pre.post_votes[pid] # EmptyZ
       /\ \E cid \in Cids : hist[i].pre.comment_votes[cid] # EmptyZ
       /\ \A cid \in Cids : CommentGone(hist[i].post, cid)

\* Call i is delete(uid, pid, cid) of an existing comment cid of post pid,
\* run alone.
CommentDeleted(i, pid, cid) ==
    /\ hist[i].op = "delete" /\ hist[i].pid = pid /\ hist[i].cid = cid
    /\ hist[i].solo
    /\ hist[i].pre.comment[cid].ex /\ hist[i].pre.comment[cid].pid = pid

\* C9: delete(uid, pid, cid) of a comment of post pid removes the comment's
\* hash and vote set and takes cid out of pid's comment list and of its
\* author's comment list; it leaves every post's hash (score included),
\* votes and subscribers and every other comment's hash, votes and places
\* in the lists as they were.
C9_CommentDeleteFrame ==
    \A i \in 1..Len(hist), pid \in Pids, cid \in Cids :
       CommentDeleted(i, pid, cid) =>
          LET s == hist[i].post
              b == hist[i].pre
          IN  /\ hist[i].ret = "True"
              /\ CommentGone(s, cid)
              /\ cid \notin Range(s.post_comments[pid])
              /\ s.post = b.post
              /\ s.post_votes = b.post_votes
              /\ s.post_subscribers = b.post_subscribers
              /\ \A c \in Cids \ {cid} :
                    /\ s.comment[c] = b.comment[c]
                    /\ s.comment_votes[c] = b.comment_votes[c]
              /\ \A q \in Pids :
                    s.post_comments[q] = LRem(b.post_comments[q], cid)
              /\ \A u \in Users :
                    s.user_comments[u] = LRem(b.user_comments[u], cid)
              /\ \A q \in Pids \ {pid} : s.post_comments[q] = b.post_comments[q]
              /\ \A u \in Users \ {b.comment[cid].uid} :
                    s.user_comments[u] = b.user_comments[u]

C9_Witness ==
    \E i \in 1..Len(hist), pid \in Pids, cid \in Cids :
       /\ CommentDeleted(i, pid, cid)
       /\ Len(hist[i].pre.post_comments[pid]) = 2
       /\ hist[i].pre.post_votes[pid] # EmptyZ
       /\ \E c \in Cids \ {cid} : hist[i].pre.comment_votes[c] # EmptyZ
       /\ Len(hist[i].post.post_comments[pid]) = 1

\* ------------------------------------------------------------- comments
\* Call i is create_comment(uid, pid, body) on an existing post, run alone.
Commenting(i, uid, pid) ==
    /\ hist[i].op = "create_comment"
    /\ hist[i].uid = uid /\ hist[i].pid = pid
    /\ hist[i].solo
    /\ hist[i].pre.post[pid].ex /\ hist[i].pre.post[pid].uid # None

\* The recipient lists of the alerts of that kind a call handed out.
AlertsTo(c, kind) ==
    {c.alerts[k].to : k \in {n \in 1..Len(c.alerts) : c.alerts[n].kind = kind}}

\* C10: create_comment(uid, pid, body) on an existing post hands out one
\* commenting alert, and its recipients are exactly the users subscribed to
\* pid before the call, without uid, each once: never the commenter, and
\* nobody who is subscribed only through this call.
C10_CommentAlertRecipients ==
    \A i \in 1..Len(hist), uid \in Users, pid \in Pids :
       Commenting(i, uid, pid) =>
          /\ Len(hist[i].alerts) >= 1
          /\ hist[i].alerts[1].kind = "commenting"
          /\ \A to \in AlertsTo(hist[i], "commenting") :
                /\ Range(to) = ZMembers(hist[i].pre.post_subscribers[pid])
                                  \ {uid}
                /\ Cardinality(Range(to)) = Len(to)
          /\ Cardinality({n \in 1..Len(hist[i].alerts) :
                            hist[i].alerts[n].kind = "commenting"}) = 1

C10_Witness ==
    \E i \in 1..Len(hist), uid \in Users, pid \in Pids :
       /\ Commenting(i, uid, pid)
       /\ hist[i].ret = "id"
       /\ hist[i].pre.post_subscribers[pid][uid] # None
       /\ \E t \in Users \ {uid} :
             /\ hist[i].pre.post_subscribers[pid][t] = None
             /\ hist[i].post.post_subscribers[pid][t] = TAGEE
             /\ t \notin Range(hist[i].alerts[1].to)
       /\ hist[i].alerts[1].to # <<>>

\* ---------------------------------------------------------------- posts
\* The existing users other than uid that the body tags.
TaggedUsers(uid, body) == (Range(body) \cap Users) \ {uid}

PostedTo(i, u) ==
    /\ hist[i].op = "create_post" /\ hist[i].solo /\ hist[i].ret = "id"
    /\ u \in ZMembers(hist[i].pre.user_followers[hist[i].uid]) \cup {hist[i].uid}

\* C12: after create_post(A, body), run alone, the feed of A and of every
\* follower B of A has the new pid at its head, after it the feed's
\* previous content from its head on in the same order, and its length is
\* the smaller of the previous length + 1 and the cap.
C12_FeedsGetThePost ==
    \A i \in 1..Len(hist), u \in Users :
       PostedTo(i, u) =>
          LET old == hist[i].pre.user_feed[u]
              new == hist[i].post.user_feed[u]
          IN  /\ Len(new) = IF Len(old) + 1 < FeedCap THEN Len(old) + 1
                            ELSE FeedCap
              /\ Head(new) = hist[i].newid
              /\ Tail(new) = SubSeq(old, 1, Len(new) - 1)

C12_Witness ==
    \E i \in 1..Len(hist), u \in Users :
       /\ PostedTo(i, u) /\ u # hist[i].uid
       /\ hist[i].pre.user_feed[u] = <<1>>
       /\ hist[i].post.user_feed[u] = <<2, 1>>
       /\ hist[i].post.user_feed[hist[i].uid] = <<2, 1>>
       /\ \E v \in Users : hist[i].post.user_feed[v] = <<>>

\* No create_post is in progress.
NoPosting == \A p \in Procs : loc[p].op # "create_post"

\* C13: whenever no create_post is in progress every feed holds at most
\* the cap of entries, and a create_post, run alone, that prepends to a
\* feed already at the cap leaves the new pid followed by the feed's
\* previous content without its last (oldest) entry.
C13_FeedCap ==
    /\ NoPosting => \A u \in Users : Len(user_feed[u]) <= FeedCap
    /\ \A i \in 1..Len(hist), u \in Users :
          (PostedTo(i, u) /\ Len(hist[i].pre.user_feed[u]) = FeedCap) =>
             hist[i].post.user_feed[u]
                = <<hist[i].newid>>
                     \o SubSeq(hist[i].pre.user_feed[u], 1, FeedCap - 1)

C13_Witness ==
    \E i \in 1..Len(hist), u \in Users :
       /\ NoPosting
       /\ PostedTo(i, u) /\ u # hist[i].uid
       /\ Len(hist[i].pre.user_feed[u]) = FeedCap
       /\ Head(hist[i].post.user_feed[u]) = hist[i].newid
       /\ Len(hist[i].post.user_feed[u]) = FeedCap
       /\ hist[i].pre.user_feed[u][FeedCap]
             \notin Range(hist[i].post.user_feed[u])

\* ------------------------------------------------------------------ ids
\* The create calls of one kind, returned (raised included) or running:
\* the id each obtained and the counter as it was when the call started.
Obtained(op) ==
    {[who |-> <<"hist", i>>, id |-> hist[i].newid,
      before |-> IF op = "create_post" THEN hist[i].pre.global_pid
                 ELSE hist[i].pre.global_cid] :
        i \in {k \in 1..Len(hist) : hist[k].op = op}}
    \cup
    {[who |-> <<"loc", p>>, id |-> loc[p].newid,
      before |-> IF op = "create_post" THEN loc[p].pre.global_pid
                 ELSE loc[p].pre.global_cid] :
        p \in {q \in Procs : loc[q].op = op}}

\* C14: no two create_post calls obtain the same pid and no two
\* create_comment calls the same cid, however the callers interleave; the
\* id a call obtains is greater than the counter the call found, which no
\* id given out so far exceeds, so that ids come out in strictly increasing
\* order and none comes out again after its post or comment was deleted or
\* its creation raised; a call that starts after another has returned
\* obtains the greater id.
C14_IdsUniqueIncreasing ==
    /\ \A op \in {"create_post", "create_comment"} :
          LET counter == IF op = "create_post" THEN global_pid ELSE global_cid
          IN  /\ \A a, b \in Obtained(op) : a.who # b.who => a.id # b.id
              /\ \A a \in Obtained(op) : a.before < a.id /\ a.id <= counter
    /\ \A i, j \in 1..Len(hist) :
          (/\ hist[i].op \in {"create_post", "create_comment"}
           /\ hist[j].op = hist[i].op /\ hist[j].t0 >= i) =>
             hist[j].newid > hist[i].newid
    /\ \A i \in 1..Len(hist) :
          /\ hist[i].op = "create_post" => hist[i].pre.post[hist[i].newid] = NoPost
          /\ hist[i].op = "create_comment" =>
                hist[i].pre.comment[hist[i].newid] = NoComment

\* Comment 1 was deleted and the next create_comment obtained cid 2.
C14_Witness ==
    /\ Len(hist) = 2
    /\ hist[1].op = "delete" /\ hist[1].cid = 1 /\ hist[1].ret = "True"
    /\ hist[1].pre.comment[1].ex
    /\ hist[2].op = "create_comment" /\ hist[2].newid = 2
    /\ hist[2].pre.comment[1] = NoComment

\* ---------------------------------------------------------------- reads
\* x is a well-formed identifier: an int or its decimal string.
WellFormed(x) == int(x).exc = "no"

\* In the store value s post pid exists and is authored by uid and, if a cid
\* is given (is not None), comment cid exists and its stored pid is pid.
OwnershipChain(s, uid, pid, cid) ==
    /\ WellFormed(uid) /\ WellFormed(pid)
    /\ HGetPost(s, int(pid).v).ex
    /\ HGetPost(s, int(pid).v).uid = int(uid).v
    /\ cid # PyNone =>
          /\ WellFormed(cid)
          /\ HGetComment(s, int(cid).v).ex
          /\ HGetComment(s, int(cid).v).pid = int(pid).v

\* C15 (the claim as stated): check_post(uid, pid, cid) never raises and
\* leaves the store as it was; it returns True exactly when post pid exists
\* and is authored by uid and, if a cid is given, comment cid exists and its
\* stored pid is pid, and False in every other case.
C15_CheckPostExact ==
    \A i \in 1..Len(hist) :
       hist[i].op = "check_post" =>
          /\ hist[i].ret \in {"True", "False"}
          /\ hist[i].post = hist[i].pre
          /\ hist[i].ret = "True" <=>
                OwnershipChain(hist[i].pre, hist[i].uid, hist[i].pid,
                               hist[i].cid)

\* C17 (the claim as stated): in every store and for every identifier (an
\* int or its decimal string) get_post and get_comment return the merged
\* view or None and never raise; they return None when the record is
\* missing, when the author's account is missing and, for get_comment, when
\* the comment's parent post is missing.
C17_ReadsNeverRaise ==
    \A i \in 1..Len(hist) :
       LET c == hist[i]
           s == hist[i].pre
       IN  /\ (c.op = "get_post" /\ WellFormed(c.pid)) =>
                LET post_ == HGetPost(s, int(c.pid).v)
                IN  /\ c.ret \in {"view", "None"}
                    /\ (~post_.ex \/ ~HGetUser(s, post_.uid)) => c.ret = "None"
           /\ (c.op = "get_comment" /\ WellFormed(c.cid)) =>
                LET comment_ == HGetComment(s, int(c.cid).v)
                IN  /\ c.ret \in {"view", "None"}
                    /\ (\/ ~comment_.ex
                        \/ ~HGetUser(s, comment_.uid)
                        \/ ~HGetPost(s, comment_.pid).ex) => c.ret = "None"

\* ------------------------------------------------------------ not found
\* Call c is a vote, a delete or a create_comment, run alone, whose post
\* (create_comment; vote and delete without a cid) or comment (vote and
\* delete with a cid) did not exist when it started.
OnWhatIsNotThere(c) ==
    /\ c.op \in {"vote", "delete", "create_comment"}
    /\ c.solo
    /\ IF c.op # "create_comment" /\ c.cid # None
       THEN ~c.pre.comment[c.cid].ex
       ELSE ~c.pre.post[c.pid].ex

\* C16 (the claim as stated): vote, delete and create_comment called with
\* the id of a post or comment that does not exist do not raise and leave
\* the store as it was.
C16_NotFoundNeverRaises ==
    \A i \in 1..Len(hist) :
       OnWhatIsNotThere(hist[i]) =>
          /\ hist[i].ret # "TypeError"
          /\ hist[i].post = hist[i].pre

\* -------------------------------------------------------------- reasons
ReasonIn(s, uid, pid) == s.post_subscribers[pid][uid]

\* C18 (the claim as stated): once a reason is recorded for (uid, pid),
\* subscription_reason(uid, pid) never gives a different reason while the
\* post exists, whatever subscribe, unsubscribe, create_comment and tagging
\* do in between.
C18_ReasonNeverChanges ==
    \A uid \in Users, pid \in Pids :
       \A i, j \in 1..Len(hist) :
          (/\ i <= j
           /\ ReasonIn(hist[i].pre, uid, pid) # None
           /\ ReasonIn(hist[j].post, uid, pid) # None
           /\ hist[j].post.post[pid].ex) =>
             ReasonIn(hist[j].post, uid, pid) = ReasonIn(hist[i].pre, uid, pid)

\* The step is the return of unsubscribe(uid, pid).
Unsubscribes(uid, pid) ==
    /\ Len(hist') = Len(hist) + 1
    /\ hist'[Len(hist')].op = "unsubscribe"
    /\ hist'[Len(hist')].uid = uid
    /\ hist'[Len(hist')].pid = pid

\* C18 (amended): no step of subscribe, unsubscribe, create_comment or its
\* tagging changes a recorded reason into another; a recorded reason only
\* goes away, by unsubscribe(uid, pid), after which any reason can be
\* recorded.
C18_ReasonKeptUntilUnsubscribed ==
    [][\A uid \in Users, pid \in Pids :
          subscription_reason(uid, pid) # None =>
             \/ post_subscribers'[pid][uid] = subscription_reason(uid, pid)
             \/ /\ post_subscribers'[pid][uid] = None
                /\ Unsubscribes(uid, pid)]_vars

\* User 2, tagged in post 1, unsubscribed and then commented: the reason
\* was TAGEE and is COMMENTER; user 3, tagged too, commented and is still
\* TAGEE.
C18_Witness ==
    /\ Len(hist) = 2
    /\ hist[1].op = "unsubscribe" /\ hist[1].uid = 2 /\ hist[1].pid = 1
    /\ ReasonIn(hist[1].pre, 2, 1) = TAGEE
    /\ hist[2].op = "create_comment" /\ hist[2].uid = 2 /\ hist[2].pid = 1
    /\ hist[2].ret = "id"
    /\ subscription_reason(2, 1) = COMMENTER
    /\ subscription_reason(3, 1) = TAGEE

SubscribeToNothing(i, pid) ==
    /\ hist[i].op = "subscribe" /\ hist[i].pid = pid
    /\ ~hist[i].pre.post[pid].ex

\* C20: subscribe(uid, pid, reason) on a post that does not exist returns
\* False; the post has no subscriber set afterwards, and, run alone, the
\* call leaves the whole store as it was.
C20_SubscribeFailsClosed ==
    \A i \in 1..Len(hist), pid \in Pids :
       SubscribeToNothing(i, pid) =>
          /\ hist[i].ret = "False"
          /\ hist[i].post.post_subscribers[pid] = EmptyZ
          /\ hist[i].solo => hist[i].post = hist[i].pre

C20_Witness ==
    \E i \in 1..Len(hist), pid \in Pids :
       /\ SubscribeToNothing(i, pid)
       /\ hist[i].solo /\ hist[i].ret = "False"
       /\ hist[i].post = hist[i].pre
       /\ \E j \in 1..(i - 1) : hist[j].op = "subscribe" /\ hist[j].ret = "True"

\* ----------------------------------------------------------- unsubscribe
IsUnsub(c, uid, pid) == c.op = "unsubscribe" /\ c.uid = uid /\ c.pid = pid

\* C21: unsubscribe(uid, pid) returns True exactly when uid was subscribed
\* to pid before the call; afterwards uid is not subscribed to pid, every
\* other subscriber of pid and every subscription on another post keeps its
\* membership and reason, and nothing else in the store changes.
C21_UnsubscribeContract ==
    \A i \in 1..Len(hist), uid \in Users, pid \in Pids :
       IsUnsub(hist[i], uid, pid) =>
          LET a == hist[i].pre
              b == hist[i].post
          IN  /\ hist[i].ret = "True" <=> a.post_subscribers[pid][uid] # None
              /\ b.post_subscribers[pid][uid] = None
              /\ \A v \in Users \ {uid} :
                    b.post_subscribers[pid][v] = a.post_subscribers[pid][v]
              /\ \A q \in Pids \ {pid} :
                    b.post_subscribers[q] = a.post_subscribers[q]
              /\ b = [a EXCEPT !.post_subscribers = b.post_subscribers]

\* An unsubscribe that returned True, with another subscriber of the post
\* and a subscriber of another post left as they were, and one that
\* returned False.
C21_Witness ==
    \E i \in 1..Len(hist), j \in 1..Len(hist), uid \in Users, pid \in Pids :
       /\ IsUnsub(hist[i], uid, pid) /\ hist[i].ret = "True"
       /\ hist[i].post.post_subscribers[pid][uid] = None
       /\ \E v \in Users \ {uid} :
             /\ hist[i].pre.post_subscribers[pid][v] # None
             /\ hist[i].post.post_subscribers[pid][v]
                   = hist[i].pre.post_subscribers[pid][v]
       /\ \E q \in Pids \ {pid}, v \in Users :
             /\ hist[i].pre.post_subscribers[q][v] # None
             /\ hist[i].post.post_subscribers[q][v]
                   = hist[i].pre.post_subscribers[q][v]
       /\ hist[j].op = "unsubscribe" /\ hist[j].ret = "False"

\* ------------------------------------------------------------ parse_tags
\* The places of the body whose name is the username of a user, and those
\* of them where that user is named for the first time.
Resolvable(body) ==
    {i \in 1..Len(body) : get_uid_username(body[i]) # None}
FirstOf(body) ==
    {i \in Resolvable(body) :
        \A j \in 1..(i - 1) :
           get_uid_username(body[j]) # get_uid_username(body[i])}
\* The list r has one entry for each place of S and no other, in the order
\* of the body, each with the uid, the name and the span of its place.
EntriesAre(r, body, S) ==
    /\ Len(r) = Cardinality(S)
    /\ {r[k].span : k \in 1..Len(r)} = S
    /\ \A k \in 1..(Len(r) - 1) : r[k].span < r[k + 1].span
    /\ \A k \in 1..Len(r) :
          /\ r[k].name = body[r[k].span]
             /\ r[k].uid = get_uid_username(r[k].name)

\* C22: parse_tags(body, send_all=False) returns one entry per distinct user
\* named, that user's first occurrence, in order of first occurrence; with
\* send_all=True one entry per occurrence of a name that resolves, in the
\* order of the body, with its span; a name that is no user's is dropped
\* in both modes.
C22_ParseTags ==
    \A i \in 1..Len(hist) :
       hist[i].op = "parse_tags" =>
          EntriesAre(hist[i].ret, hist[i].body,
                     IF hist[i].arg = 1 THEN Resolvable(hist[i].body)
                     ELSE FirstOf(hist[i].body))

\* '@bob @bob @carol' parsed for alerts gives bob's first tag and carol's;
\* '@bob @nobody @bob' parsed for highlighting gives both tags of bob.
C22_Witness ==
    \E i \in 1..Len(hist), j \in 1..Len(hist) :
       /\ hist[i].op = "parse_tags" /\ hist[i].arg = 0
       /\ hist[i].body = <<2, 2, 3>>
       /\ Len(hist[i].ret) = 2
       /\ hist[i].ret[1].span = 1 /\ hist[i].ret[2].span = 3
       /\ hist[j].op = "parse_tags" /\ hist[j].arg = 1
       /\ hist[j].body = <<2, NUsers + 1, 2>>
       /\ Len(hist[j].ret) = 2
       /\ hist[j].ret[1].span = 1 /\ hist[j].ret[2].span = 3

\* ---------------------------------------------------------- PostingAlert
\* Call i is verify of an alert, run with no other call in flight: the
\* store it found is the store both its commands read.
Verified(i) == hist[i].op = "verify" /\ hist[i].solo

\* C23: a posting alert verifies as valid only if the post it refers to
\* exists and the user record of the post's author exists.
C23_VerifyNeedsPostAndAuthor ==
    \A i \in 1..Len(hist) :
       (Verified(i) /\ hist[i].ret = "True") =>
          /\ hist[i].pre.post[hist[i].pid].ex
          /\ hist[i].pre.user[hist[i].arg]

\* What verify does require: the post, and the user the alert is from.
VerifyNeedsPostAndSender ==
    \A i \in 1..Len(hist) :
       Verified(i) =>
          (hist[i].ret = "True" <=>
              /\ hist[i].pre.post[hist[i].pid].ex
              /\ hist[i].pre.user[hist[i].uid])

\* ------------------------------------------------------- an accepted vote
\* Call i is vote(uid, t, amount) run with no other call in flight, by a
\* user who is not the author of the target t and has no vote on it.
FreshVote(i, uid, t) ==
    /\ IsVote(hist[i], uid, t) /\ hist[i].solo
    /\ TargetHash(hist[i].pre, t).uid \notin {None, uid}
    /\ TargetVotes(hist[i].pre, t)[uid] = None

\* C24: a vote by a user who is not the author and has not voted on the
\* target returns True; has_voted, absent before, is the amount afterwards;
\* the target's score moves by the amount; the score and the vote set of
\* every other post and comment, the parent post of a comment voted on
\* among them, are as they were.
C24_AcceptedVoteFrame ==
    \A i \in 1..Len(hist), uid \in Users, t \in Targets :
       FreshVote(i, uid, t) =>
          LET a == hist[i].pre
              b == hist[i].post
          IN  /\ hist[i].ret = "True"
              /\ TargetVotes(b, t)[uid] = hist[i].arg
              /\ TargetHash(b, t).score = TargetHash(a, t).score + hist[i].arg
              /\ \A v \in Users \ {uid} :
                    TargetVotes(b, t)[v] = TargetVotes(a, t)[v]
              /\ \A q \in Pids :
                    (t[2] # None \/ q # t[1]) =>
                       b.post[q] = a.post[q] /\ b.post_votes[q] = a.post_votes[q]
              /\ \A c \in Cids :
                    c # t[2] =>
                       /\ b.comment[c] = a.comment[c]
                       /\ b.comment_votes[c] = a.comment_votes[c]

\* A downvote of a comment accepted from a user whose upvote of the parent
\* post was accepted before and stays as it was.
C24_Witness ==
    \E i \in 1..Len(hist), uid \in Users, t \in Targets :
       /\ FreshVote(i, uid, t) /\ t[2] # None
       /\ hist[i].ret = "True" /\ hist[i].arg = -1
       /\ TargetVotes(hist[i].post, t)[uid] = -1
       /\ hist[i].pre.post_votes[t[1]][uid] = 1
       /\ hist[i].post.post_votes[t[1]][uid] = 1
       /\ hist[i].post.post[t[1]].score = 1

\* ------------------------------------------------- delete and reputation
\* C25: delete of a post or of a comment changes no user's reputation: what
\* the votes on the deleted target gave or took stays.
C25_DeleteKeepsReputation ==
    \A i \in 1..Len(hist) :
       hist[i].op = "delete" =>
          hist[i].post.user_score = hist[i].pre.user_score

\* A post with an upvote that gave its author a point was deleted, comments
\* and all, and a comment was deleted, and the author has the point.
C25_Witness ==
    \E i \in 1..Len(hist), j \in 1..Len(hist), pid \in Pids :
       /\ PostDeleted(i, pid)
       /\ hist[i].pre.post[pid].score = 1
       /\ hist[i].pre.post_votes[pid] # EmptyZ
       /\ hist[i].pre.user_score[hist[i].pre.post[pid].uid] = 1
       /\ hist[i].post.user_score[hist[i].pre.post[pid].uid] = 1
       /\ hist[j].op = "delete" /\ hist[j].cid # None /\ hist[j].ret = "True"
       /\ hist[j].pre.comment_votes[hist[j].cid] # EmptyZ
       /\ hist[j].post.user_score = hist[j].pre.user_score

\* ------------------------------------------- comments and their posts
\* No call is in flight.
Quiet == \A p \in Procs : Idle(p)

\* In the store value s the comment cid has a record whose post is there.
HasLivePost(s, cid) ==
    /\ s.comment[cid].pid # None
    /\ s.post[s.comment[cid].pid].ex

\* Call i is create_comment on a post that was not there, run with no other
\* call in flight: whether it returned a cid or raised.
CommentOnNothing(i) ==
    /\ hist[i].op = "create_comment" /\ hist[i].solo
    /\ ~hist[i].pre.post[hist[i].pid].ex

\* What create_comment on a post that is not there leaves behind, stated
\* alone.
CommentOnNothingLeavesNothing ==
    \A i \in 1..Len(hist) :
       CommentOnNothing(i) =>
          /\ ~hist[i].post.comment[hist[i].newid].ex
          /\ hist[i].newid \notin Range(hist[i].post.post_comments[hist[i].pid])
          /\ hist[i].newid \notin Range(hist[i].post.user_comments[hist[i].uid])

\* C26 (the claim as stated): whenever no call is in flight, every comment
\* record references a post that exists; create_comment on a pid that does
\* not exist leaves no comment record and no index entry.
C26_CommentsHaveLivePost ==
    /\ Quiet => \A cid \in Cids : comment[cid].ex => HasLivePost(Store, cid)
    /\ CommentOnNothingLeavesNothing

\* --------------------------------- create_comment racing delete of the post
\* Calls i and j, j the later to return, were in flight at the same time:
\* j was entered before i returned.
Overlap(i, j) == i < j /\ hist[j].t0 < i

IsDeletePost(c, pid) == c.op = "delete" /\ c.pid = pid /\ c.cid = None
IsComment(c, pid) == c.op = "create_comment" /\ c.pid = pid

\* In the store value s nothing is left of the comments of post pid, cid
\* being the one the racing create_comment made.
NoCommentOf(s, pid, cid) ==
    /\ \A c \in Cids : ~(s.comment[c].ex /\ s.comment[c].pid = pid)
    /\ s.post_comments[pid] = <<>>
    /\ \A u \in Users : cid \notin Range(s.user_comments[u])

\* C27 (the claim as stated): when create_comment(u, pid, body) and delete of
\* the post pid run concurrently, then, once both have finished, no comment
\* record with parent pid is there, pid has no comment list and no user's
\* comment list holds the cid.
C27_CommentDeleteRace ==
    \A i, j \in 1..Len(hist), pid \in Pids :
       (/\ Overlap(i, j)
        /\ hist[i].pre.post[pid].ex /\ hist[j].pre.post[pid].ex
        /\ \/ IsComment(hist[i], pid) /\ IsDeletePost(hist[j], pid)
           \/ IsDeletePost(hist[i], pid) /\ IsComment(hist[j], pid)) =>
          NoCommentOf(hist[j].post, pid,
                      IF IsComment(hist[i], pid) THEN hist[i].newid
                      ELSE hist[j].newid)

\* ------------------------------------- subscribing racing delete of the post
\* The call c subscribes users to post pid: subscribe itself, the
\* create_post that made pid, or a create_comment on pid.
SubscribesTo(c, pid) ==
    \/ c.op = "subscribe" /\ c.pid = pid
    \/ c.op = "create_post" /\ c.newid = pid
    \/ c.op = "create_comment" /\ c.pid = pid

\* The call c deleted the post pid.
DeletedPost(c, pid) == IsDeletePost(c, pid) /\ c.ret = "True"

\* C28 (the claim as stated): a post that does not exist has no subscriber
\* set; in every interleaving of a call that subscribes to a post with a
\* delete of that post, once both have finished the post's subscriber set
\* is absent.
C28_NoLedgerWithoutPost ==
    \A i, j \in 1..Len(hist), pid \in Pids :
       (/\ Overlap(i, j)
        /\ \/ SubscribesTo(hist[i], pid) /\ DeletedPost(hist[j], pid)
           \/ DeletedPost(hist[i], pid) /\ SubscribesTo(hist[j], pid)) =>
          hist[j].post.post_subscribers[pid] = EmptyZ

\* ------------------------------------------------- deleted is terminal
\* C29 (the claim as stated): once a delete of the post pid has returned,
\* the post's hash and the post's vote set are never there again, also when
\* a vote on pid entered before the delete finishes after it.
C29_DeletedIsTerminal ==
    \A i \in 1..Len(hist), pid \in Pids :
       DeletedPost(hist[i], pid) =>
          ~post[pid].ex /\ post_votes[pid] = EmptyZ

\* --------------------------- delete of a post racing delete of its comment
\* The call c is delete(uid, pid, cid), entered when the comment cid of the
\* post pid was there.
IsDeleteComment(c, pid, cid) ==
    /\ c.op = "delete" /\ c.pid = pid /\ c.cid = cid
    /\ c.pre.comment[cid].ex /\ c.pre.comment[cid].pid = pid

\* C30 (the claim as stated): when delete of the post pid and delete of a
\* comment of pid run concurrently, both return without an error in every
\* interleaving, and afterwards no comment of pid has a hash, a vote set
\* or a place in a user's comment list, and pid has no comment list.
C30_DeleteRace ==
    \A i, j \in 1..Len(hist), pid \in Pids, cid \in Cids :
       (/\ Overlap(i, j)
        /\ hist[i].pre.post[pid].ex /\ hist[j].pre.post[pid].ex
        /\ \/ IsDeletePost(hist[i], pid) /\ IsDeleteComment(hist[j], pid, cid)
           \/ IsDeleteComment(hist[i], pid, cid) /\ IsDeletePost(hist[j], pid))
       => /\ hist[i].ret = "True" /\ hist[j].ret = "True"
          /\ \A c \in Range(hist[i].pre.post_comments[pid]) :
                CommentGone(hist[j].post, c)
          /\ hist[j].post.post_comments[pid] = <<>>

\* ------------------------------------------------------- the post lists
\* The list l is strictly decreasing from head to tail.
Decreasing(l) == \A k \in 1..(Len(l) - 1) : l[k] > l[k + 1]

\* C31 (the claim as stated): every user's post list is newest first, its
\* pids strictly decreasing from head to tail in every reachable state, also
\* when one user has two create_post calls in flight.
C31_PostIndexNewestFirst == \A u \in Users : Decreasing(user_posts[u])

\* ------------------------------------------------------ the comment lists
\* How often x is in the list l.
Count(l, x) == Cardinality({k \in 1..Len(l) : l[k] = x})

\* In the store value s the comment cid, which has a record, is once in the
\* comment list of its author and of its post and in no other list.
IndexedOnce(s, cid) ==
    /\ \A u \in Users :
          Count(s.user_comments[u], cid)
             = IF u = s.comment[cid].uid THEN 1 ELSE 0
    /\ \A q \in Pids :
          Count(s.post_comments[q], cid)
             = IF q = s.comment[cid].pid THEN 1 ELSE 0

\* C32 (the claim as stated): whenever no call is in flight, every comment
\* that has a record has its cid exactly once in its author's comment list
\* and in no other user's, exactly once in its post's comment list and in
\* no other post's, and every cid in a comment list has a record.
C32_CommentIndexes ==
    Quiet =>
       /\ \A cid \in Cids : comment[cid].ex => IndexedOnce(Store, cid)
       /\ \A u \in Users : \A cid \in Range(user_comments[u]) : comment[cid].ex
       /\ \A q \in Pids : \A cid \in Range(post_comments[q]) : comment[cid].ex

\* ------------------------------------------------------ the tagging alert
\* The call c is a create_post or a create_comment that returned its id;
\* the post it tagged users in.
Created(c) == c.op \in {"create_post", "create_comment"} /\ c.ret = "id"
PostOf(c) == IF c.op = "create_post" THEN c.newid ELSE c.pid

\* C33: the recipient list of the tagging alert of create_post and of
\* create_comment never holds the acting user, holds every other existing
\* user the body tags exactly once however often the body tags them, and
\* every user in it is subscribed to the post after the call.
C33_TaggingAlertRecipients ==
    \A i \in 1..Len(hist) :
       Created(hist[i]) =>
          LET c == hist[i]
              T == TaggedUsers(c.uid, c.body)
          IN  /\ Cardinality(AlertsTo(c, "tagging")) = 1
              /\ \A to \in AlertsTo(c, "tagging") :
                    /\ c.uid \notin Range(to)
                    /\ Range(to) = T
                    /\ Len(to) = Cardinality(T)
                    /\ \A t \in Range(to) :
                          c.post.post_subscribers[PostOf(c)][t] # None
              /\ c.alerts[Len(c.alerts)].kind = "tagging"

\* A post tagging its author and another user alerted only the other; a
\* comment tagging a user twice alerted that user once; both are subscribed.
C33_Witness ==
    \E i \in 1..Len(hist), j \in 1..Len(hist) :
       /\ hist[i].op = "create_post" /\ hist[i].ret = "id"
       /\ hist[i].uid = 1 /\ hist[i].body = <<1, 2>>
       /\ AlertsTo(hist[i], "tagging") = {<<2>>}
       /\ hist[i].post.post_subscribers[hist[i].newid][2] = TAGEE
       /\ hist[j].op = "create_comment" /\ hist[j].ret = "id"
       /\ hist[j].uid = 1 /\ hist[j].body = <<2, 2>>
       /\ AlertsTo(hist[j], "tagging") = {<<2>>}
       /\ hist[j].post.post_subscribers[hist[j].pid][2] # None

\* -------------------------------------------- the alerts of one comment
\* C34 (the claim as stated): one create_comment call hands at most one
\* alert to a user: nobody is a recipient of its commenting alert and of
\* its tagging alert.
C34_OneAlertPerUser ==
    \A i \in 1..Len(hist) :
       hist[i].op = "create_comment" =>
          \A a \in AlertsTo(hist[i], "commenting"),
             b \in AlertsTo(hist[i], "tagging") :
             Range(a) \cap Range(b) = {}

\* ---------------------------------------------- the clause of an alert
\* C35: the clause of a commenting alert is chosen for each recipient from
\* that recipient's subscription reason when the alert is rendered: POSTER
\* 'posted', COMMENTER 'commented on', TAGEE 'were tagged in', and the
\* fallback clause for a recipient who is not subscribed.
C35_VerbPerRecipient ==
    \A i \in 1..Len(hist) :
       hist[i].op = "prettify" =>
          LET reason == hist[i].pre.post_subscribers[hist[i].pid][hist[i].uid]
          IN  /\ reason = POSTER => hist[i].ret = "posted"
              /\ reason = COMMENTER => hist[i].ret = "commented on"
              /\ reason = TAGEE => hist[i].ret = "were tagged in"
              /\ reason = None => hist[i].ret = "are subscribed too"
              /\ reason \in Reasons \cup {None}

\* One alert rendered for the poster gave 'posted' and, rendered for a user
\* who unsubscribed after the alert was made, gave the fallback clause.
C35_Witness ==
    \E i, j, k, n \in 1..Len(hist) :
       /\ hist[i].op = "PostingAlert" /\ hist[i].ret = "alert"
       /\ i < j /\ hist[j].op = "prettify" /\ hist[j].ret = "posted"
       /\ i < k /\ hist[k].op = "prettify" /\ hist[k].ret = "are subscribed too"
       /\ hist[j].pid = hist[i].pid /\ hist[j].arg = hist[i].uid
       /\ hist[k].pid = hist[i].pid /\ hist[k].arg = hist[i].uid
       /\ i < n /\ n < k /\ hist[n].op = "unsubscribe" /\ hist[n].ret = "True"
       /\ hist[n].uid = hist[k].uid /\ hist[n].pid = hist[k].pid

\* ------------------------------------------------------ the view of a post
\* Call i is get_post(pid) run with no other call in flight on a post that
\* is there, as its author is: the store it found is the store all its
\* commands read.
Viewed(i, pid) ==
    /\ hist[i].op = "get_post" /\ hist[i].pid = pid /\ hist[i].solo
    /\ hist[i].pre.post[pid].ex /\ hist[i].pre.post[pid].uid # None
    /\ hist[i].pre.user[hist[i].pre.post[pid].uid]

\* C36: get_post(pid) gives the state at the time of the read: its
\* user_score is the author's reputation then, also after votes on other
\* targets of the author, and its comment_count is the length of the post's
\* comment list then, after any create_comment and delete of comments.
C36_ViewIsCurrent ==
    \A i \in 1..Len(hist), pid \in Pids :
       Viewed(i, pid) =>
          LET s == hist[i].pre
          IN  /\ hist[i].ret.t = "dict"
              /\ hist[i].ret.user_score = s.user_score[s.post[pid].uid]
              /\ hist[i].ret.comment_count = Len(s.post_comments[pid])

\* A view of post 1 taken after a vote on the author's comment changed the
\* author's reputation and a comment was added or deleted.
C36_Witness ==
    \E i, j, k \in 1..Len(hist) :
       /\ j < i /\ k < i /\ Viewed(i, 1)
       /\ hist[j].op = "vote" /\ hist[j].cid # None /\ hist[j].ret = "True"
       /\ hist[j].post.user_score[1] # hist[j].pre.user_score[1]
       /\ hist[k].op \in {"create_comment", "delete"}
       /\ hist[k].ret \in {"id", "True"}
       /\ hist[i].ret.user_score = hist[j].post.user_score[1]
       /\ hist[i].ret.comment_count # 1

\* ------------------------------------------------ the subscription lookups
\* uid is in the list get_subscribers(pid) returns, read as the callers
\* read it (backend.py 266: int(subscriber)).
InSubscribers(uid, pid) ==
    \E k \in 1..Len(get_subscribers(pid)) : int(get_subscribers(pid)[k]).v = uid

\* The three lookups agree on every user and post, in every state.
LookupsAgree ==
    \A uid \in Users, pid \in Pids :
       /\ is_subscribed(uid, pid) <=> subscription_reason(uid, pid) # None
       /\ is_subscribed(uid, pid) <=> InSubscribers(uid, pid)

\* C37 (the claim as stated): the three lookups agree on every user and
\* post in every state, and say 'not subscribed' for a post that does not
\* exist (here: whenever no call is in flight).
C37_LookupsAgreeAndFailClosed ==
    /\ LookupsAgree
    /\ Quiet =>
          \A uid \in Users, pid \in Pids :
             ~post[pid].ex =>
                /\ ~is_subscribed(uid, pid)
                /\ subscription_reason(uid, pid) = None
                /\ get_subscribers(pid) = <<>>

\* ------------------------------------------- delete, whoever calls it
\* What delete_comments leaves of the store value s and whether it raised,
\* from what is in s alone: the comments cids of the post pid, in turn.
RECURSIVE CommentsDeleted(_, _, _)
CommentsDeleted(s, pid, cids) ==
    IF cids = <<>>
    THEN [ret |-> "True", s |-> [s EXCEPT !.post_comments[pid] = <<>>]]
    ELSE LET c == Head(cids)
             a == s.comment[c].uid
         IN  IF a = None THEN [ret |-> "TypeError", s |-> s]
             ELSE CommentsDeleted(
                      [s EXCEPT !.comment[c] = NoComment,
                                !.comment_votes[c] = EmptyZ,
                                !.user_comments[a] = LRem(@, c)],
                      pid, Tail(cids))

\* What delete(uid, pid, cid) returns and leaves of the store value s when
\* run alone, as a function of s, pid and cid and not of uid.
Deleted(s, pid, cid) ==
    IF cid # None
    THEN LET a == s.comment[cid].uid
         IN  IF a = None THEN [ret |-> "TypeError", s |-> s]
             ELSE [ret |-> "True",
                   s |-> [s EXCEPT !.comment[cid] = NoComment,
                                   !.comment_votes[cid] = EmptyZ,
                                   !.post_comments[pid] = LRem(@, cid),
                                   !.user_comments[a] = LRem(@, cid)]]
    ELSE LET a == s.post[pid].uid
         IN  IF a = None THEN [ret |-> "TypeError", s |-> s]
             ELSE CommentsDeleted(
                      [s EXCEPT !.post[pid] = NoPost,
                                !.post_votes[pid] = EmptyZ,
                                !.post_subscribers[pid] = EmptyZ,
                                !.user_posts[a] = LRem(@, pid)],
                      pid, s.post_comments[pid])

\* C38: delete checks no owner: what delete(uid, pid) and delete(uid, pid,
\* cid) return and leave of a store is the same for every uid, whoever
\* wrote the post or the comment: it is a function of the store, pid and
\* cid.
C38_DeleteIgnoresUid ==
    \A i \in 1..Len(hist) :
       (hist[i].op = "delete" /\ hist[i].solo) =>
          LET d == Deleted(hist[i].pre, hist[i].pid, hist[i].cid)
          IN  hist[i].ret = d.ret /\ hist[i].post = d.s

\* A post with comments deleted by a user who is not its author, and a
\* comment deleted by a user who is not its author, as the authors' deletes
\* would have left them.
C38_Witness ==
    \E i, j \in 1..Len(hist) :
       /\ PostDeleted(i, hist[i].pid)
       /\ hist[i].uid # hist[i].pre.post[hist[i].pid].uid
       /\ hist[i].pre.post_comments[hist[i].pid] # <<>>
       /\ hist[i].post = Deleted(hist[i].pre, hist[i].pid, None).s
       /\ hist[j].op = "delete" /\ hist[j].cid # None /\ hist[j].solo
       /\ hist[j].ret = "True"
       /\ hist[j].uid # hist[j].pre.comment[hist[j].cid].uid
       /\ hist[j].post = Deleted(hist[j].pre, hist[j].pid, hist[j].cid).s

\* ------------------------------------------------- scores and vote sets
\* The sum of the amounts the vote set z records, over the users of U.
RECURSIVE VoteSum(_, _)
VoteSum(z, U) ==
    IF U = {} THEN 0
    ELSE LET u == CHOOSE x \in U : TRUE
         IN  (IF z[u] = None THEN 0 ELSE z[u]) + VoteSum(z, U \ {u})

\* C39: with no call in progress, the score of every post and comment that
\* exists is the sum of the amounts its vote set records, whatever votes
\* ran and however they overlapped.
C39_ScoreIsVoteSum ==
    Quiet =>
       /\ \A pid \in Pids :
             post[pid].ex => post[pid].score = VoteSum(post_votes[pid], Users)
       /\ \A cid \in Cids :
             comment[cid].ex =>
                comment[cid].score = VoteSum(comment_votes[cid], Users)

\* ------------------------------------------------------ feeds and posts
\* C40: with no call in progress, every pid on a user's feed is the pid of
\* a post that exists: a deleted post is on no feed, its author's and the
\* followers' included.
C40_FeedsHoldLivePosts ==
    Quiet =>
       \A u \in Users : \A pid \in Range(user_feed[u]) : post[pid].ex

\* ------------------------------------- the initial stores and the code
\* An accepted vote run alone leaves the store WithVote gives.
\* WithPost is what create_post leaves when it runs alone and tags nobody.
WithPostAgrees ==
    \A i \in 1..Len(hist) :
       LET c == hist[i]
       IN  (c.op = "create_post" /\ c.solo /\ Tagees(c.uid, c.body) = <<>>)
           => c.ret = "id" /\ c.post = WithPost(c.pre, c.uid)

\* create_comment run alone on a post that does not exist raises and
\* leaves the store WithOrphan gives.
WithOrphanAgrees ==
    \A i \in 1..Len(hist) :
       (/\ hist[i].op = "create_comment" /\ hist[i].solo
        /\ ~hist[i].pre.post[hist[i].pid].ex) =>
          /\ hist[i].ret = "TypeError"
          /\ hist[i].post = WithOrphan(hist[i].pre, hist[i].uid, hist[i].pid)

WithVoteAgrees ==
    \A i \in 1..Len(hist) :
       (hist[i].op = "vote" /\ hist[i].solo /\ hist[i].ret = "True") =>
          hist[i].post = WithVote(hist[i].pre, hist[i].uid, hist[i].pid,
                                  hist[i].cid, hist[i].arg)

\* create_comment with a body without tags, run alone on an existing post,
\* leaves the store WithComment gives.
WithCommentAgrees ==
    \A i \in 1..Len(hist) :
       (/\ hist[i].op = "create_comment" /\ hist[i].solo
        /\ hist[i].ret = "id" /\ hist[i].body = <<>>) =>
          hist[i].post = WithComment(hist[i].pre, hist[i].uid, hist[i].pid)
====
